---- MODULE Spec2Model ----
(***************************************************************************)
(* A model of the GPA pipeline: the knowledge-graph builder                *)
(* (src/knowledge_graph/knowledge_graph_builder.py), the path enumerator   *)
(* (src/poison_generator/poison_text_generator.py), the enhancer and the   *)
(* merger.                                                                 *)
(*                                                                         *)
(* The text service is the environment: each call_llm is a step whose      *)
(* result is chosen among no response, a text json.loads rejects, a parsed *)
(* value of the wrong container type, and the parsed objects of Shapes.    *)
(* The prompt templates are part of the state: with the templates as they  *)
(* are shipped, whose JSON examples hold unescaped braces, str.format      *)
(* raises KeyError at lines 130, 154 and 194, before any gateway call;     *)
(* what follows a built prompt is reached with format-safe templates.      *)
(***************************************************************************)
EXTENDS Integers, Sequences, FiniteSets, TLC

VARIABLES
    \* ---- KnowledgeGraphBuilder ----
    graphs,          \* self.graphs: core entity -> DiGraph
    all_data,        \* self.all_data: the accepted fragments, in order
    failed_queries,  \* self.failed_queries
    pc,              \* where build_knowledge_graph stands
    queries,         \* the units of the current call that are not yet batched
    batch_size,      \* the batch_size argument
    batch,           \* query_batch of the running extract_batch_relations
    batch_data,      \* the parsed batch response
    idx,             \* position of the reconciliation loop in the batch
    results,         \* the results list of extract_batch_relations
    single_result,   \* what extract_relations returned for unit idx
    attempts,        \* per unit of the batch: calls of extract_relations made
    calls,           \* gateway calls issued by the running extract_relations
    failed0,         \* len(failed_queries) when the batch was started
    handed,          \* units handed to build_knowledge_graph so far
    gateway,         \* what call_llm is: the live service or a test stub
    templates,       \* the two prompt templates: as shipped, or format-safe
    primary,         \* extract_relations: what its first call left it with
    \* ---- PoisonTextGenerator.extract_all_paths ----
    G,             \* the DiGraph: its set of edges <<source, target>>
    root,          \* the core_entity argument
    visited,       \* the closure's visited set
    current_path,  \* the list shared by all dfs frames
    all_paths,     \* the result list
    stack,         \* the dfs call stack: frames [node, todo, phase]
    ppc,           \* "run" while dfs is executing, "done" after the return
    \* ---- call_llm ----
    max_retries,   \* the max_retries argument
    retry_delay,   \* the retry_delay argument
    attempt,       \* the loop variable of "for attempt in range(max_retries)"
    posts,         \* the responses of the requests.post calls made, in order
    waits,         \* the arguments of the time.sleep calls made, in order
    llm_result,    \* what call_llm returned
    gpc,           \* "idle", "loop" or "returned"
    \* ---- validate_extraction_result on one parsed object ----
    vdata,         \* the data argument
    vanswer,       \* the answer argument
    vresult,       \* "valid", "invalid" or "raise"
    vaccepted,     \* what extract_relations emits after a True verdict
    vpc,           \* "idle", "parsed" or "done"
    \* ---- PoisonTextEnhancer.process_subgraph ----
    subgraph_edges,            \* subgraph_data["edges"]
    original_poison_entities,  \* what extract_poison_entities returned
    batch_idx,                 \* the index of the batch being processed
    synthetic_entities,        \* the synthetic entities of that batch
    count_requested,           \* count_needed of every synthesizer call made
    entity_pairs,              \* entity_pairs of the running process_entity_batch
    pair_idx,                  \* the pairs of entity_pairs processed so far
    composed,                  \* every pair composed so far, over all batches
    all_enhancement_texts,     \* the entries collected so far
    total_synthetic_entities,  \* the counter of process_subgraph
    enhancement_result,        \* what process_subgraph returned
    epc,                       \* "idle", "synthesize", "pairs", "aggregate",
                               \* "done" or "raised"
    \* ---- save_knowledge_graph ----
    disk,          \* the files of output_dir: name -> what was dumped into it
    save_log,      \* the outputs whose write was attempted, with the outcome
    spc,           \* "idle", "raw", "graph", "failed", "done" or "raised"
    \* ---- the parsing of a response, at each of its four sites ----
    response_text, \* the text call_llm returned, as its pieces
    json_str,      \* the text handed to json.loads
    parse_site,    \* the function that parsed it, "none" before
    \* ---- load_knowledge_graph ----
    load_before,   \* graphs, all_data and failed_queries when it was called
    load_result,   \* "none", "True" or "False"
    lpc,           \* "idle", "raw", "failed", "graph" or "returned"
    \* ---- PoisonTextMerger.merge_poison_texts ----
    poison_texts,    \* the generator's result: core entity -> entry
    enhanced_texts,  \* the enhancer's result: core entity -> entry
    merged_json,     \* the first value returned
    merged_txt,      \* the second value returned, as its blocks in order
    mpc              \* "idle" or "merged"

bvars == <<graphs, all_data, failed_queries, pc, queries, batch_size, batch,
           batch_data, idx, results, single_result, attempts, calls, failed0,
           handed, gateway, templates, primary>>

pvars == <<G, root, visited, current_path, all_paths, stack, ppc>>

gvars == <<max_retries, retry_delay, attempt, posts, waits, llm_result, gpc>>

vvars == <<vdata, vanswer, vresult, vaccepted, vpc>>

evars == <<subgraph_edges, original_poison_entities, batch_idx, synthetic_entities,
           count_requested, entity_pairs, pair_idx, composed,
           all_enhancement_texts, total_synthetic_entities, enhancement_result,
           epc>>

svars == <<disk, save_log, spc>>

fvars == <<response_text, json_str, parse_site>>

lvars == <<load_before, load_result, lpc>>

mvars == <<poison_texts, enhanced_texts, merged_json, merged_txt, mpc>>

xvars == <<gvars, vvars, evars, svars, fvars, lvars, mvars>>

vars == <<bvars, pvars, xvars>>

(***************************************************************************)
(* Knowledge-graph builder: data                                           *)
(***************************************************************************)

\* Bound: the number of query units handed to the builder, over all calls
\* of build_knowledge_graph / process_batch.
MaxUnits == 2

QueryNames == <<"q1", "q2", "q3", "q4">>

AnswerNames == <<"a1", "a2", "a1", "a2">>

\* One input unit {query, answer}
Unit(k) == [query |-> QueryNames[k], answer |-> AnswerNames[k]]

\* The queries argument: the first n units
UnitList(n) == [k \in 1..n |-> Unit(k)]

EmptyMap == [x \in {} |-> x]

\* key in dict
Has(d, k) == k \in DOMAIN d

\* A parsed JSON value that is not an object where the code expects a dict
NotADict == [json |-> "string"]

IsDict(v) == ~Has(v, "json")

Ent(n, t, r) == [name |-> n, type |-> t, context_role |-> r]

Rel(s, t, r, i) == [source |-> s, target |-> t, relation |-> r, context_intent |-> i]

WithCore(r, b) == r @@ [is_core_answer |-> b]

WithPoison(r, p) == r @@ [poison_text |-> p]

Shape(core, ents, rels) ==
    [query_analysis |-> [core_entity |-> core], entities |-> ents, relations |-> rels]

\* The parsed objects the text service may answer with.
EntsA == <<Ent("X", "t1", "c1"), Ent("Y", "t1", "c1")>>

EntsB == <<Ent("X", "t2", "c2"), Ent("Z", "t1", "c1")>>

EntsBad == <<[name |-> "X", context_role |-> "c1"]>>

RCore(p) == WithPoison(WithCore(Rel("X", "Y", "r", "i1"), TRUE), p)

RPlain == WithCore(Rel("X", "Y", "r", "i2"), FALSE)

ROther == Rel("X", "Y", "s", "i1")

RCoreYZ(p) == WithPoison(WithCore(Rel("Y", "Z", "r", "i1"), TRUE), p)

RNonCorePoison(p) == WithPoison(WithCore(Rel("Y", "Z", "r", "i2"), FALSE), p)

RCoreNoPoison == WithCore(Rel("X", "Y", "r", "i1"), TRUE)

ShapeChain(p) == Shape("X", EntsA, <<RCore(p)>>)

ShapePlainFirst == Shape("X", EntsB, <<RPlain, RCoreYZ("a1")>>)

ShapeTwoRelations == Shape("X", EntsA, <<ROther, RCore("a1")>>)

ShapeCoreY == Shape("Y", EntsA, <<RCore("a1")>>)

ShapeNonCorePoison == Shape("X", EntsA, <<RCore("a1"), RNonCorePoison("a1")>>)

ShapeEntityNoType == Shape("X", EntsBad, <<RCore("a1")>>)

ShapeNoAnalysis == [entities |-> EntsA, relations |-> <<RCore("a1")>>]

ShapeNoCore == Shape("X", EntsA, <<RPlain>>)

ShapeCoreNoPoison == Shape("X", EntsA, <<RCoreNoPoison>>)

ShapeAnalysisNotDict ==
    [query_analysis |-> NotADict, entities |-> EntsA, relations |-> <<RCore("a1")>>]

\* two relations marked is_core_answer, the second with another poison_text
ShapeTwoCore == Shape("X", EntsA, <<RCore("a1"), RCoreYZ("a2")>>)

Shapes ==
    {ShapeChain("a1"), ShapeChain("a2"), ShapePlainFirst, ShapeTwoRelations,
     ShapeCoreY, ShapeNonCorePoison, ShapeEntityNoType, ShapeNoAnalysis,
     ShapeNoCore, ShapeCoreNoPoison, ShapeAnalysisNotDict, ShapeTwoCore}

\* Example 1 of RELATION_EXTRACTION_PROMPT: its unit and its JSON object
FairUnit ==
    [query |-> "Who leads Meta's AI research laboratory FAIR?", answer |-> "YANN LECUN"]

FairAnalysis ==
    [core_question_type |-> "who", expected_answer_type |-> "person",
     core_entity |-> "FAIR"]

FairEntities ==
    <<Ent("FAIR", "organization", "research laboratory"),
      Ent("Meta", "organization", "parent company"),
      Ent("leader", "person", "laboratory leader")>>

FairRelations ==
    <<WithCore(Rel("FAIR", "Meta", "belongs to",
                   "explain the laboratory's parent company"), FALSE),
      WithPoison(WithCore(Rel("Meta", "leader", "employs",
                              "determine the laboratory's leader"), TRUE),
                 "YANN LECUN")>>

ShapeFair ==
    [query_analysis |-> FairAnalysis, entities |-> FairEntities,
     relations |-> FairRelations]

\* What call_llm and the parsing of its text leave the caller with: no
\* response (None or empty), a text json.loads rejects, a parsed value that is
\* not of the expected container type, or a parsed object / list.
RespNone == [kind |-> "none"]

RespGarbage == [kind |-> "garbage"]

RespWrongType == [kind |-> "wrong_type"]

RespDict(d) == [kind |-> "dict", data |-> d]

RespList(items) == [kind |-> "list", items |-> items]

SingleResponses == {RespNone, RespGarbage, RespWrongType} \cup {RespDict(d) : d \in Shapes}

\* An entry of a batch response: an object that echoes a unit
ItemOf(d, q, a) == d @@ [original_query |-> q, original_answer |-> a]

\* The entries a batch response may hold for unit u: a valid one, one that
\* fails the validator, one the validator cannot read, one that echoes the
\* query with another answer.
ItemsFor(u) ==
    {ItemOf(ShapeChain(u.answer), u.query, u.answer),
     ItemOf(ShapeNoCore, u.query, u.answer),
     ItemOf(ShapeAnalysisNotDict, u.query, u.answer),
     ItemOf(ShapeChain(u.answer), u.query, "other")}

\* The lists a batch response may parse to: for each unit in order, one
\* entry or none.
RECURSIVE ItemLists(_, _)
ItemLists(b, k) ==
    IF k > Len(b) THEN {<<>>}
    ELSE LET rest == ItemLists(b, k + 1) IN
         rest \cup {<<it>> \o r : it \in ItemsFor(b[k]), r \in rest}

\* a list in the opposite order
Reversed(l) == [i \in 1..Len(l) |-> l[Len(l) + 1 - i]]

\* The service may answer the units in their order or in the opposite one.
BatchResponses(b) ==
    {RespNone, RespGarbage, RespWrongType}
        \cup {RespList(l) : l \in ItemLists(b, 1)}
        \cup {RespList(Reversed(l)) : l \in ItemLists(b, 1)}

\* call_llm is the method of the class, answering as the service does, or it
\* is replaced by a stub that returns one fixed text to every prompt.
Live == [mode |-> "live"]

Stub(v) == [mode |-> "stub", value |-> v]

\* The fixed texts of the stubs: nothing, a text json.loads rejects, a JSON
\* object, a JSON list of objects.
StubValues ==
    {RespNone, RespGarbage}
        \cup {RespDict(d) : d \in Shapes \cup {ShapeFair}}
        \cup {RespList(<<ShapeFair>>),
              RespList(<<ItemOf(ShapeFair, FairUnit.query, FairUnit.answer)>>)}

Gateways == {Live} \cup {Stub(v) : v \in StubValues}

\* What extract_batch_relations, lines 197-221, has after parsing the text
\* v: iterating a non-empty JSON object yields its keys, which have no .get
AsBatch(v) == IF v.kind = "dict" THEN RespWrongType ELSE v

\* What extract_relations and retry_extraction_with_guidance, lines 155-169
\* and 132-145, have after parsing the text v: a list takes no string key
AsSingle(v) == IF v.kind = "list" THEN RespWrongType ELSE v

\* the answers call_llm may give to the batch prompt of b
BatchAnswers(gw, b) ==
    IF gw = Live THEN BatchResponses(b) ELSE {AsBatch(gw.value)}

\* the answers call_llm may give to a single-unit prompt
SingleAnswers(gw) ==
    IF gw = Live THEN SingleResponses ELSE {AsSingle(gw.value)}

(***************************************************************************)
(* Knowledge-graph builder: validation and normalization                   *)
(***************************************************************************)

\* relation.get("is_core_answer") == True
IsCore(r) == Has(r, "is_core_answer") /\ r["is_core_answer"] = TRUE

Min(S) == CHOOSE x \in S : \A y \in S : x <= y

\* validate_extraction_result, lines 78-112: "valid" (True), "invalid"
\* (False) or "raise" (query_analysis has no .get)
ValidateOutcome(data, query, answer) ==
    IF ~Has(data, "query_analysis") THEN "invalid"
    ELSE IF ~IsDict(data["query_analysis"]) THEN "raise"
    ELSE IF ~Has(data["query_analysis"], "core_entity")
            \/ data["query_analysis"]["core_entity"] = "" THEN "invalid"
    ELSE IF ~Has(data, "entities") \/ data["entities"] = <<>> THEN "invalid"
    ELSE IF ~Has(data, "relations") \/ data["relations"] = <<>> THEN "invalid"
    ELSE LET rels == data["relations"]
             cores == {i \in 1..Len(rels) : IsCore(rels[i])}
         IN  IF cores = {} THEN "invalid"
             ELSE LET r == rels[Min(cores)] IN
                  IF ~Has(r, "poison_text") \/ r["poison_text"] # answer
                  THEN "invalid"
                  ELSE "valid"

\* lines 176-180 and 225-229: the normalization of one relation
NormalizeRelation(r, answer) ==
    LET r1 == IF Has(r, "is_core_answer") THEN r ELSE r @@ [is_core_answer |-> FALSE]
    IN  IF IsCore(r1) /\ ~Has(r1, "poison_text")
        THEN r1 @@ [poison_text |-> answer]
        ELSE r1

\* lines 175-180 and 224-229: data.get("relations", []) normalized in place
Normalize(data, answer) ==
    IF ~Has(data, "relations") THEN data
    ELSE [data EXCEPT !["relations"] =
            [i \in 1..Len(data["relations"]) |->
                NormalizeRelation(data["relations"][i], answer)]]

\* lines 168-169 and 144-145: the unit is attached to the parsed object
Attach(d, query, answer) ==
    [original_query |-> query, original_answer |-> answer] @@ d

(***************************************************************************)
(* Knowledge-graph builder: the in-memory graphs (networkx DiGraph)        *)
(***************************************************************************)

EmptyGraph == [nodes |-> EmptyMap, edges |-> EmptyMap]

\* DiGraph.add_node(n, **attrs): a new node gets attrs, an existing node has
\* its attributes updated with them
AddNode(g, n, attrs) ==
    LET old == IF n \in DOMAIN g.nodes THEN g.nodes[n] ELSE EmptyMap
    IN  [g EXCEPT !.nodes = (n :> (attrs @@ old)) @@ g.nodes]

\* DiGraph.add_edge(u, v, **attrs): u and v become nodes, and the one edge
\* from u to v has its attributes updated with attrs
AddEdge(g, u, v, attrs) ==
    LET g1 == AddNode(AddNode(g, u, EmptyMap), v, EmptyMap)
        old == IF <<u, v>> \in DOMAIN g.edges THEN g.edges[<<u, v>>] ELSE EmptyMap
    IN  [g1 EXCEPT !.edges = (<<u, v>> :> (attrs @@ old)) @@ g.edges]

\* lines 275-283 and 321-330: the attributes an edge gets from a relation
EdgeAttrs(r) ==
    LET base == [relation |-> r["relation"],
                 context_intent |-> r["context_intent"],
                 is_core_answer |-> IF Has(r, "is_core_answer")
                                    THEN r["is_core_answer"] ELSE FALSE]
    IN  IF IsCore(r) /\ Has(r, "poison_text")
        THEN base @@ [poison_text |-> r["poison_text"]]
        ELSE base

\* the keys lines 268-272 read
EntityComplete(e) == Has(e, "name") /\ Has(e, "type") /\ Has(e, "context_role")

\* the keys lines 275-288 read
RelationComplete(r) ==
    Has(r, "relation") /\ Has(r, "context_intent") /\ Has(r, "source") /\ Has(r, "target")

\* lines 267-272; ok is FALSE when an entity lacks a key (KeyError)
RECURSIVE AddNodes(_, _, _)
AddNodes(g, ents, i) ==
    IF i > Len(ents) THEN [g |-> g, ok |-> TRUE]
    ELSE IF ~EntityComplete(ents[i]) THEN [g |-> g, ok |-> FALSE]
    ELSE AddNodes(AddNode(g, ents[i]["name"],
                          [type |-> ents[i]["type"],
                           context_role |-> ents[i]["context_role"]]),
                  ents, i + 1)

\* lines 274-289; ok is FALSE when a relation lacks a key (KeyError)
RECURSIVE AddEdges(_, _, _)
AddEdges(g, rels, i) ==
    IF i > Len(rels) THEN [g |-> g, ok |-> TRUE]
    ELSE IF ~RelationComplete(rels[i]) THEN [g |-> g, ok |-> FALSE]
    ELSE AddEdges(AddEdge(g, rels[i]["source"], rels[i]["target"], EdgeAttrs(rels[i])),
                  rels, i + 1)

GraphForAny(gs, core) ==
    IF gs # EmptyMap THEN gs[CHOOSE c \in DOMAIN gs : TRUE] ELSE EmptyGraph

GraphForFresh(gs, core) == EmptyGraph

\* lines 264-265: the graph of the core entity, a new DiGraph when it has none
GraphFor(gs, core) == IF core \in DOMAIN gs THEN gs[core] ELSE EmptyGraph

\* lines 259-289 for one fragment: the graphs after it, and whether the
\* code got through without raising
MergeFragment(gs, f) ==
    IF \/ ~Has(f, "query_analysis")
       \/ ~IsDict(f["query_analysis"])
       \/ ~Has(f["query_analysis"], "core_entity")
    THEN [graphs |-> gs, ok |-> FALSE]
    ELSE LET core == f["query_analysis"]["core_entity"]
             g0 == GraphFor(gs, core)
         IN  IF ~Has(f, "entities")
             THEN [graphs |-> (core :> g0) @@ gs, ok |-> FALSE]
             ELSE LET n == AddNodes(g0, f["entities"], 1) IN
                  IF ~n.ok \/ ~Has(f, "relations")
                  THEN [graphs |-> (core :> n.g) @@ gs, ok |-> FALSE]
                  ELSE LET e == AddEdges(n.g, f["relations"], 1) IN
                       [graphs |-> (core :> e.g) @@ gs, ok |-> e.ok]

\* lines 256-289: the loop over batch_results; a fragment is logged in
\* all_data (line 258) before it is merged
RECURSIVE MergeAll(_, _, _, _)
MergeAll(gs, ad, rs, i) ==
    IF i > Len(rs) THEN [graphs |-> gs, all_data |-> ad, ok |-> TRUE]
    ELSE LET m == MergeFragment(gs, rs[i]) IN
         IF m.ok THEN MergeAll(m.graphs, Append(ad, rs[i]), rs, i + 1)
         ELSE [graphs |-> m.graphs, all_data |-> Append(ad, rs[i]), ok |-> FALSE]

(***************************************************************************)
(* Knowledge-graph builder: the graph structure save_knowledge_graph       *)
(* derives from all_data                                                   *)
(***************************************************************************)

EmptySaved == [nodes |-> <<>>, edges |-> <<>>]

\* lines 313-318
SaveNode(nodes, e) ==
    IF \E j \in 1..Len(nodes) : nodes[j]["id"] = e["name"]
    THEN nodes
    ELSE Append(nodes, [id |-> e["name"], type |-> e["type"],
                        context_role |-> e["context_role"]])

RECURSIVE SaveNodes(_, _, _)
SaveNodes(nodes, ents, i) ==
    IF i > Len(ents) THEN nodes
    ELSE SaveNodes(SaveNode(nodes, ents[i]), ents, i + 1)

\* lines 321-330
SavedEdge(r) ==
    [source |-> r["source"], target |-> r["target"]] @@ EdgeAttrs(r)

IsDuplicateWrongField(existing, edge) ==
    /\ existing["source"] = edge["target"]
    /\ existing["target"] = edge["target"]
    /\ existing["relation"] = edge["relation"]

\* lines 335-337
IsDuplicate(existing, edge) ==
    /\ existing["source"] = edge["source"]
    /\ existing["target"] = edge["target"]
    /\ existing["relation"] = edge["relation"]

EnrichNever(existing, edge) == existing

\* lines 339-340
Enrich(existing, edge) ==
    IF Has(edge, "poison_text") /\ ~Has(existing, "poison_text")
    THEN existing @@ [poison_text |-> edge["poison_text"]]
    ELSE existing

\* lines 333-345
SaveEdge(edges, edge) ==
    LET dups == {j \in 1..Len(edges) : IsDuplicate(edges[j], edge)} IN
    IF dups = {} THEN Append(edges, edge)
    ELSE [edges EXCEPT ![Min(dups)] = Enrich(edges[Min(dups)], edge)]

RECURSIVE SaveEdges(_, _, _)
SaveEdges(edges, rels, i) ==
    IF i > Len(rels) THEN edges
    ELSE SaveEdges(SaveEdge(edges, SavedEdge(rels[i])), rels, i + 1)

\* lines 300-345 for one entry of all_data
SaveFragment(gd, data) ==
    IF ~Has(data, "query_analysis") THEN gd
    ELSE LET core == data["query_analysis"]["core_entity"]
             g0 == IF core \in DOMAIN gd THEN gd[core] ELSE EmptySaved
         IN  (core :> [nodes |-> SaveNodes(g0.nodes, data["entities"], 1),
                       edges |-> SaveEdges(g0.edges, data["relations"], 1)]) @@ gd

RECURSIVE GraphDataFrom(_, _, _)
GraphDataFrom(gd, ad, i) ==
    IF i > Len(ad) THEN gd
    ELSE GraphDataFrom(SaveFragment(gd, ad[i]), ad, i + 1)

\* lines 298-345: graph_data as written to graph_data.json
GraphData(ad) == GraphDataFrom(EmptyMap, ad, 1)

(***************************************************************************)
(* Knowledge-graph builder: build_knowledge_graph, step by step            *)
(***************************************************************************)

None == RespNone

\* extract_relations has not made its first call
NoPrimary == [kind |-> "unset", verdict |-> "none"]

\* A builder between two calls that holds the given graphs, fragment log
\* and failed-queries log
BuilderHolding(gs, ad, fq) ==
    /\ graphs = gs
    /\ all_data = ad
    /\ failed_queries = fq
    /\ pc = "idle"
    /\ queries = <<>>
    /\ batch_size = 1
    /\ batch = <<>>
    /\ batch_data = None
    /\ idx = 0
    /\ results = <<>>
    /\ single_result = None
    /\ attempts = <<>>
    /\ calls = 0
    /\ failed0 = 0
    /\ handed = 0
    /\ primary = NoPrimary

\* The two templates of prompt_knowledge_graph_builder.py, each as the
\* repository ships it, or rebound to a text whose literal braces are
\* doubled so that str.format accepts it.
TemplateChoices ==
    [single : {"shipped", "format_safe"}, batch : {"shipped", "format_safe"}]

ShippedTemplates == [single |-> "shipped", batch |-> "shipped"]

FormatNeverRaises(t) == FALSE

\* lines 130, 154 and 194: str.format on a template whose JSON example holds
\* single braces raises KeyError
FormatRaises(t) == t = "shipped"

\* __init__, lines 21-26: a builder that has done nothing yet
BuilderConstructed == BuilderHolding(EmptyMap, <<>>, <<>>)

InitBuilderVars == BuilderConstructed /\ gateway = Live /\ templates = ShippedTemplates

Prefix(s, n) == SubSeq(s, 1, n)

Suffix(s, n) == SubSeq(s, n + 1, Len(s))

MinOf(a, b) == IF a <= b THEN a ELSE b

\* lines 250-254: the loop over the batches takes the next slice and calls
\* extract_batch_relations, or build_knowledge_graph returns
NextBatch(qs, bs, failed) ==
    IF qs = <<>>
    THEN /\ pc' = "idle"
         /\ queries' = <<>>
         /\ batch' = <<>>
         /\ attempts' = <<>>
         /\ failed0' = 0
    ELSE /\ pc' = "batch_call"
         /\ queries' = Suffix(qs, MinOf(bs, Len(qs)))
         /\ batch' = Prefix(qs, MinOf(bs, Len(qs)))
         /\ attempts' = [k \in 1..MinOf(bs, Len(qs)) |-> 0]
         /\ failed0' = Len(failed)

\* build_knowledge_graph(queries, batch_size) / process_batch is called,
\* lines 246-254 and 439-441
BuildKnowledgeGraph ==
    /\ pc = "idle"
    /\ \E n \in 1..MaxUnits : \E bs \in 1..n :
        /\ handed + n <= MaxUnits
        /\ handed' = handed + n
        /\ batch_size' = bs
        /\ NextBatch(UnitList(n), bs, failed_queries)
    /\ batch_data' = None
    /\ idx' = 0
    /\ results' = <<>>
    /\ single_result' = None
    /\ calls' = 0
    /\ UNCHANGED <<graphs, all_data, failed_queries, gateway, templates, primary>>
    /\ UNCHANGED <<pvars, xvars>>

\* build_knowledge_graph is called on the unit of Example 1, with a stub
\* in the place of call_llm, lines 246-254
BuildFair ==
    /\ pc = "idle"
    /\ gateway # Live
    /\ handed + 1 <= MaxUnits
    /\ handed' = handed + 1
    /\ batch_size' = 1
    /\ NextBatch(<<FairUnit>>, 1, failed_queries)
    /\ batch_data' = None
    /\ idx' = 0
    /\ results' = <<>>
    /\ single_result' = None
    /\ calls' = 0
    /\ UNCHANGED <<graphs, all_data, failed_queries, gateway, templates, primary>>
    /\ UNCHANGED <<pvars, xvars>>

\* extract_batch_relations, lines 189-212: the prompt is built, which with
\* the shipped template raises KeyError out of extract_batch_relations and
\* of build_knowledge_graph (line 194 is outside the try of line 203), then
\* the one gateway call for the batch and the parsing of its text
BatchCall ==
    /\ pc = "batch_call"
    /\ IF FormatRaises(templates.batch)
       THEN /\ pc' = "raised"
            /\ UNCHANGED <<batch_data, idx>>
       ELSE \E resp \in BatchAnswers(gateway, batch) :
            /\ batch_data' = resp
            /\ IF resp.kind = "list"
               THEN /\ pc' = "reconcile"
                    /\ idx' = 1
               ELSE /\ pc' = "merge"
                    /\ idx' = 0
    /\ results' = <<>>
    /\ UNCHANGED <<graphs, all_data, failed_queries, queries, batch_size, batch,
                   single_result, attempts, calls, failed0, handed, gateway, templates,
                   primary>>
    /\ UNCHANGED <<pvars, xvars>>

PrependResult(rs, r) == <<r>> \o rs

\* lines 232 and 236: results.append
AppendResult(rs, r) == Append(rs, r)

\* lines 217-221: the first entry that echoes the unit, 0 when there is none
MatchIndex(items, u) ==
    LET ms == {j \in 1..Len(items) :
                /\ Has(items[j], "original_query")
                /\ items[j]["original_query"] = u.query
                /\ Has(items[j], "original_answer")
                /\ items[j]["original_answer"] = u.answer}
    IN  IF ms = {} THEN 0 ELSE Min(ms)

\* line 223: "accept", "fallback" or "raise" for unit u against the entries
BatchVerdict(items, u) ==
    LET j == MatchIndex(items, u) IN
    IF j = 0 THEN "fallback"
    ELSE LET v == ValidateOutcome(items[j], u.query, u.answer) IN
         IF v = "valid" THEN "accept"
         ELSE IF v = "raise" THEN "raise"
         ELSE "fallback"

\* lines 213-234, one turn of the loop: the unit is accepted from the batch
\* response, or extract_relations is called for it, or the validator raises
\* and line 241 makes extract_batch_relations return []
Reconcile ==
    /\ pc = "reconcile"
    /\ idx <= Len(batch)
    /\ LET u == batch[idx]
           j == MatchIndex(batch_data.items, u)
           verdict == BatchVerdict(batch_data.items, u)
       IN  \/ /\ verdict = "accept"
              /\ results' = AppendResult(results, Normalize(batch_data.items[j], u.answer))
              /\ batch_data' = [batch_data EXCEPT !.items[j] = Normalize(@, u.answer)]
              /\ idx' = idx + 1
              /\ UNCHANGED <<pc, attempts, calls>>
           \/ /\ verdict = "fallback"
              /\ pc' = "single_call"
              /\ attempts' = [attempts EXCEPT ![idx] = @ + 1]
              /\ calls' = 0
              /\ UNCHANGED <<results, batch_data, idx>>
           \/ /\ verdict = "raise"
              /\ pc' = "merge"
              /\ results' = <<>>
              /\ UNCHANGED <<batch_data, idx, attempts, calls>>
    /\ UNCHANGED <<graphs, all_data, failed_queries, queries, batch_size, batch,
                   single_result, failed0, handed, gateway, templates, primary>>
    /\ UNCHANGED <<pvars, xvars>>

\* line 240: the loop is over and results is returned
BatchReturn ==
    /\ pc = "reconcile"
    /\ idx > Len(batch)
    /\ pc' = "merge"
    /\ UNCHANGED <<graphs, all_data, failed_queries, queries, batch_size, batch,
                   batch_data, idx, results, single_result, attempts, calls,
                   failed0, handed, gateway, templates, primary>>
    /\ UNCHANGED <<pvars, xvars>>

RetryOnAnyFailure(v) == v # "valid"

RetryOnNoVerdict(v) == v \in {"invalid", "none"}

\* lines 171-173: the guided retry is made when the validator returned False
RetryOn(v) == v = "invalid"

\* extract_relations, lines 153-186, up to its return or to the call of
\* retry_extraction_with_guidance. With the shipped template line 154 raises
\* KeyError out of extract_relations (it is outside the try of line 160);
\* the call of line 234 is inside the try of extract_batch_relations, whose
\* line 241 catches it and returns [].
SingleCall ==
    /\ pc = "single_call"
    /\ IF FormatRaises(templates.single)
       THEN /\ pc' = "merge"
            /\ results' = <<>>
            /\ UNCHANGED <<calls, primary, single_result>>
       ELSE /\ \E resp \in SingleAnswers(gateway) :
                LET u == batch[idx]
                    data == Attach(resp.data, u.query, u.answer)
                    v == IF resp.kind = "dict"
                         THEN ValidateOutcome(data, u.query, u.answer)
                         ELSE "none"
                IN  /\ calls' = calls + 1
                    /\ primary' = [kind |-> resp.kind, verdict |-> v]
                    /\ IF RetryOn(v)
                       THEN /\ pc' = "retry_call"
                            /\ single_result' = None
                       ELSE /\ pc' = "single_returned"
                            /\ single_result' = IF v = "valid"
                                                THEN RespDict(Normalize(data, u.answer))
                                                ELSE None
            /\ UNCHANGED results
    /\ UNCHANGED <<graphs, all_data, failed_queries, queries, batch_size, batch,
                   batch_data, idx, attempts, failed0, handed, gateway, templates>>
    /\ UNCHANGED <<pvars, xvars>>

\* retry_extraction_with_guidance, lines 114-151, and line 173 returning
\* what it returns. With the shipped template line 130 raises KeyError out
\* of retry_extraction_with_guidance (it is outside the try of line 136);
\* the call of line 173 is inside the try of extract_relations, whose line
\* 183 catches it and returns None.
RetryCall ==
    /\ pc = "retry_call"
    /\ pc' = "single_returned"
    /\ IF FormatRaises(templates.single)
       THEN /\ single_result' = None
            /\ UNCHANGED calls
       ELSE \E resp \in SingleAnswers(gateway) :
            LET u == batch[idx] IN
            /\ calls' = calls + 1
            /\ single_result' = IF resp.kind = "dict"
                                THEN RespDict(Attach(resp.data, u.query, u.answer))
                                ELSE None
    /\ UNCHANGED <<graphs, all_data, failed_queries, queries, batch_size, batch,
                   batch_data, idx, results, attempts, failed0, handed, gateway, templates,
                   primary>>
    /\ UNCHANGED <<pvars, xvars>>

\* lines 234-238: the fallback's result goes to results, its absence to
\* failed_queries
SingleReturned ==
    /\ pc = "single_returned"
    /\ IF single_result.kind = "dict"
       THEN /\ results' = AppendResult(results, single_result.data)
            /\ UNCHANGED failed_queries
       ELSE /\ failed_queries' = Append(failed_queries,
                                        [query |-> batch[idx].query,
                                         answer |-> batch[idx].answer])
            /\ UNCHANGED results
    /\ idx' = idx + 1
    /\ pc' = "reconcile"
    /\ primary' = NoPrimary
    /\ UNCHANGED <<graphs, all_data, queries, batch_size, batch, batch_data,
                   single_result, attempts, calls, failed0, handed, gateway, templates>>
    /\ UNCHANGED <<pvars, xvars>>

\* lines 254-289: the batch's results are logged and merged into the graphs;
\* a KeyError leaves build_knowledge_graph, otherwise the next batch starts
MergeResults ==
    /\ pc = "merge"
    /\ LET m == MergeAll(graphs, all_data, results, 1) IN
        /\ graphs' = m.graphs
        /\ all_data' = m.all_data
        /\ IF m.ok
           THEN /\ NextBatch(queries, batch_size, failed_queries)
                /\ batch_data' = None
                /\ idx' = 0
                /\ results' = <<>>
                /\ single_result' = None
                /\ calls' = 0
           ELSE /\ pc' = "raised"
                /\ UNCHANGED <<queries, batch, batch_data, idx, results,
                               single_result, attempts, calls, failed0>>
    /\ UNCHANGED <<failed_queries, batch_size, handed, gateway, templates, primary>>
    /\ UNCHANGED <<pvars, xvars>>

BuilderStep ==
    \/ BuildKnowledgeGraph
    \/ BuildFair
    \/ BatchCall
    \/ Reconcile
    \/ BatchReturn
    \/ SingleCall
    \/ RetryCall
    \/ SingleReturned
    \/ MergeResults

\* No path enumeration is running.
PathsIdle ==
    /\ G = {}
    /\ root = "A"
    /\ visited = {}
    /\ current_path = <<>>
    /\ all_paths = <<>>
    /\ stack = <<>>
    /\ ppc = "idle"

\* call_llm is not running.
GatewayIdle ==
    /\ max_retries = 0
    /\ retry_delay = 0
    /\ attempt = 0
    /\ posts = <<>>
    /\ waits = <<>>
    /\ llm_result = None
    /\ gpc = "idle"

\* No parsed object is being validated.
ValidatorIdle ==
    /\ vdata = EmptyMap
    /\ vanswer = ""
    /\ vresult = "none"
    /\ vaccepted = None
    /\ vpc = "idle"

\* No subgraph is being enhanced.
EnhancerIdle ==
    /\ subgraph_edges = <<>>
    /\ original_poison_entities = <<>>
    /\ batch_idx = 0
    /\ synthetic_entities = <<>>
    /\ count_requested = <<>>
    /\ entity_pairs = <<>>
    /\ pair_idx = 0
    /\ composed = <<>>
    /\ all_enhancement_texts = <<>>
    /\ total_synthetic_entities = 0
    /\ enhancement_result = None
    /\ epc = "idle"

\* save_knowledge_graph is not running and output_dir holds no file.
SaveIdle ==
    /\ disk = EmptyMap
    /\ save_log = <<>>
    /\ spc = "idle"

\* No response is being parsed.
ParseIdle ==
    /\ response_text = <<>>
    /\ json_str = None
    /\ parse_site = "none"

\* load_knowledge_graph is not running.
LoadIdle ==
    /\ load_before = None
    /\ load_result = "none"
    /\ lpc = "idle"

\* The merger has been given nothing.
MergerIdle ==
    /\ poison_texts = EmptyMap
    /\ enhanced_texts = EmptyMap
    /\ merged_json = EmptyMap
    /\ merged_txt = <<>>
    /\ mpc = "idle"

LaterStagesIdle == ParseIdle /\ LoadIdle /\ MergerIdle

OthersIdle ==
    GatewayIdle /\ ValidatorIdle /\ EnhancerIdle /\ SaveIdle /\ LaterStagesIdle

Init ==
    /\ BuilderConstructed /\ gateway \in Gateways /\ templates \in TemplateChoices
    /\ PathsIdle /\ OthersIdle

Next == BuilderStep

Spec == Init /\ [][Next]_vars

(***************************************************************************)
(* Knowledge-graph builder: properties                                     *)
(***************************************************************************)

\* some entry of rs is the fragment of unit u
HasFragmentOf(rs, u) ==
    \E i \in 1..Len(rs) :
        /\ Has(rs[i], "original_query") /\ rs[i]["original_query"] = u.query
        /\ Has(rs[i], "original_answer") /\ rs[i]["original_answer"] = u.answer

\* unit u was recorded in failed_queries by the running batch
RecordedFailed(u) ==
    \E i \in (failed0 + 1)..Len(failed_queries) :
        failed_queries[i] = [query |-> u.query, answer |-> u.answer]

\* the batch response holds an entry for unit k that the reconciler accepts
AcceptedFromBatch(k) ==
    /\ batch_data.kind = "list"
    /\ BatchVerdict(batch_data.items, batch[k]) = "accept"

\* C1: what extract_relations returns for a unit, when it returns a
\* fragment, passes validate_extraction_result for that unit; a unit whose
\* first result and guided-retry result are both invalid is rejected.
SingleResultIsValid ==
    (pc = "single_returned" /\ single_result.kind = "dict") =>
        ValidateOutcome(single_result.data, batch[idx].query, batch[idx].answer) = "valid"

\* C2: when extract_batch_relations returns, every unit of the batch is
\* either represented in the returned list or recorded in failed_queries,
\* never both and never neither, so fragments + recorded failures = N.
BatchAccountsForEveryUnit ==
    pc = "merge" =>
        /\ \A k \in 1..Len(batch) :
            HasFragmentOf(results, batch[k]) # RecordedFailed(batch[k])
        /\ Len(results) + (Len(failed_queries) - failed0) = Len(batch)

\* C3: when extract_batch_relations returns, every unit that was not
\* accepted from the batch response has had exactly one call of
\* extract_relations, and every unit accepted from it has had none.
EveryUnfitUnitGetsOneAttempt ==
    pc = "merge" =>
        \A k \in 1..Len(batch) :
            attempts[k] = IF AcceptedFromBatch(k) THEN 0 ELSE 1

\* C4: build_knowledge_graph never raises, and a unit accepted from the
\* batch response reaches the merge whatever happens to the other units.
BuildReturnsNormally ==
    /\ pc # "raised"
    /\ pc = "merge" =>
        \A k \in 1..Len(batch) :
            AcceptedFromBatch(k) => HasFragmentOf(results, batch[k])

\* The fragments a merge may be given: every parsed object, as attached to a
\* unit, before and after normalization.
CandidateFragments ==
    LET attached == {Attach(d, Unit(1).query, Unit(1).answer) : d \in Shapes}
    IN  attached \cup {Normalize(f, Unit(1).answer) : f \in attached}

\* C5: merging a fragment a second time changes neither the in-memory
\* graphs nor the graph structure save_knowledge_graph derives: same nodes,
\* same edges, same counts.
MergeIdempotent ==
    pc = "idle" =>
        \A f \in CandidateFragments :
            LET once == MergeFragment(graphs, f)
                twice == MergeFragment(once.graphs, f)
            IN  once.ok =>
                    /\ twice.ok
                    /\ twice.graphs = once.graphs
                    /\ GraphData(all_data \o <<f, f>>) = GraphData(Append(all_data, f))

\* C5 witness: the same fragment has been merged twice, and the graphs are
\* those of one merge.
SameFragmentMergedTwice ==
    /\ pc = "idle"
    /\ Len(all_data) = 2
    /\ all_data[1] = all_data[2]
    /\ graphs = MergeFragment(EmptyMap, all_data[1]).graphs
    /\ Len(GraphData(all_data)["X"].edges) = 1

\* The relations a merge may be given.
CatalogRelations ==
    LET raw == UNION {{d["relations"][i] : i \in 1..Len(d["relations"])} : d \in Shapes}
    IN  raw \cup {NormalizeRelation(r, a) : r \in raw, a \in {"a1", "a2"}}

SameKey(e, r) ==
    /\ e["source"] = r["source"]
    /\ e["target"] = r["target"]
    /\ e["relation"] = r["relation"]

\* Merging relation r onto the equal-keyed edge of in-memory graph g keeps
\* the edge's poison_text when r has none, and, when r carries one and the
\* edge has none, puts it on that edge without adding an edge.
PoisonMonotoneMem(g, r, carries) ==
    LET k == <<r["source"], r["target"]>> IN
    (k \in DOMAIN g.edges /\ g.edges[k]["relation"] = r["relation"]) =>
        LET old == g.edges[k]
            new == AddEdge(g, r["source"], r["target"], EdgeAttrs(r))
        IN  /\ (Has(old, "poison_text") /\ ~Has(r, "poison_text")) =>
                (Has(new.edges[k], "poison_text")
                    /\ new.edges[k]["poison_text"] = old["poison_text"])
            /\ (~Has(old, "poison_text") /\ carries) =>
                (/\ Has(new.edges[k], "poison_text")
                 /\ new.edges[k]["poison_text"] = r["poison_text"]
                 /\ DOMAIN new.edges = DOMAIN g.edges)

\* The same for the persisted edge list.
PoisonMonotoneSaved(edges, r, carries) ==
    \A j \in 1..Len(edges) :
        SameKey(edges[j], r) =>
            LET new == SaveEdge(edges, SavedEdge(r)) IN
            /\ (Has(edges[j], "poison_text") /\ ~Has(r, "poison_text")) =>
                (Len(new) = Len(edges) /\ new[j] = edges[j])
            /\ (~Has(edges[j], "poison_text") /\ carries) =>
                (/\ Len(new) = Len(edges)
                 /\ Has(new[j], "poison_text")
                 /\ new[j]["poison_text"] = r["poison_text"])

\* C6 as stated: an edge's poison_text survives the merge of an equal-keyed
\* relation without poison_text, and any equal-keyed relation that carries
\* poison_text gives it to an edge that has none, without a second edge.
PoisonEnrichmentMonotone ==
    pc = "idle" =>
        \A r \in CatalogRelations :
            /\ \A c \in DOMAIN graphs :
                PoisonMonotoneMem(graphs[c], r, Has(r, "poison_text"))
            /\ \A c \in DOMAIN GraphData(all_data) :
                PoisonMonotoneSaved(GraphData(all_data)[c].edges, r, Has(r, "poison_text"))

\* C6 as amended: the same, where the relation that gives its poison_text is
\* one marked is_core_answer = true.
PoisonEnrichmentMonotoneCore ==
    pc = "idle" =>
        \A r \in CatalogRelations :
            /\ \A c \in DOMAIN graphs :
                PoisonMonotoneMem(graphs[c], r, IsCore(r) /\ Has(r, "poison_text"))
            /\ \A c \in DOMAIN GraphData(all_data) :
                PoisonMonotoneSaved(GraphData(all_data)[c].edges, r,
                                    IsCore(r) /\ Has(r, "poison_text"))

\* C6 witness: a relation without poison_text was merged first, an
\* equal-keyed core-answer relation with poison_text after it, and the one
\* edge of that key carries the poison_text, in memory and as persisted.
PoisonAddedToPlainEdge ==
    /\ pc = "idle"
    /\ Len(all_data) = 2
    /\ all_data[1]["relations"][1] = RPlain
    /\ all_data[2]["relations"] = <<RCore("a2")>>
    /\ graphs["X"].edges[<<"X", "Y">>]["poison_text"] = "a2"
    /\ \E j \in 1..Len(GraphData(all_data)["X"].edges) :
        LET e == GraphData(all_data)["X"].edges[j] IN
        SameKey(e, RPlain) /\ Has(e, "poison_text") /\ e["poison_text"] = "a2"

\* the (source, target, relation) keys of the relations merged for core c
MergedKeys(ad, c) ==
    UNION {{<<ad[i]["relations"][j]["source"], ad[i]["relations"][j]["target"],
              ad[i]["relations"][j]["relation"]>> : j \in 1..Len(ad[i]["relations"])}
           : i \in {i \in 1..Len(ad) : ad[i]["query_analysis"]["core_entity"] = c}}

MemEdgeKeys(g) == {<<k[1], k[2], g.edges[k]["relation"]>> : k \in DOMAIN g.edges}

SavedEdgeKeys(edges) ==
    {<<edges[j]["source"], edges[j]["target"], edges[j]["relation"]>> : j \in 1..Len(edges)}

\* C7: each per-core-entity graph holds exactly one edge per merged
\* (source, target, relation) key: relations that differ in their relation
\* string are distinct edges, relations of equal key are one edge.
EdgesKeyedBySourceTargetRelation ==
    pc = "idle" =>
        \A c \in DOMAIN graphs :
            /\ MemEdgeKeys(graphs[c]) = MergedKeys(all_data, c)
            /\ Cardinality(DOMAIN graphs[c].edges) = Cardinality(MergedKeys(all_data, c))
            /\ SavedEdgeKeys(GraphData(all_data)[c].edges) = MergedKeys(all_data, c)
            /\ Len(GraphData(all_data)[c].edges) = Cardinality(MergedKeys(all_data, c))

(***************************************************************************)
(* Path enumeration                                                        *)
(***************************************************************************)

\* Bound: the graphs explored have at most MaxEdges edges over Nodes.
MaxEdges == 3

Nodes == {"A", "B", "C", "D"}

\* G.successors(n)
Successors(g, n) == {e[2] : e \in {x \in g : x[1] = n}}

\* G.out_degree(n)
OutDegree(g, n) == Cardinality({x \in g : x[1] = n})

\* lines 127-131: every successor of the node is in visited
AllSuccessorsVisited(g, n, vis) == \A s \in Successors(g, n) : s \in vis

\* line 146: the root is marked before the search starts
InitVisitedNoRoot(r) == {}

InitVisited(r) == {r}

\* line 144: the successor is unmarked when its subtree is finished
VisitedKeptAfterReturn(vis, s) == vis

VisitedAfterReturn(vis, s) == vis \ {s}

PathAlwaysRecorded(p) == TRUE

\* lines 123 and 133, "if current_path": the path holds an edge
PathIsTruthy(p) == p # <<>>

\* line 141: the edge is appended to the shared path
PathPrepend(p, e) == <<e>> \o p

PathAppend(p, e) == Append(p, e)

\* line 143: current_path.pop()
PathPop(p) == SubSeq(p, 1, Len(p) - 1)

Frame(n, phase, todo) == [node |-> n, phase |-> phase, todo |-> todo]

Top == stack[Len(stack)]

Pop(s) == SubSeq(s, 1, Len(s) - 1)

ReplaceTop(s, f) == [s EXCEPT ![Len(s)] = f]

InitPathVars ==
    /\ G \in {E \in SUBSET (Nodes \X Nodes) : Cardinality(E) <= MaxEdges}
    /\ root \in Nodes
    /\ visited = InitVisited(root)
    /\ current_path = <<>>
    /\ all_paths = <<>>
    /\ stack = <<Frame(root, "enter", {})>>
    /\ ppc = "run"

\* dfs entry, lines 122-135: a sink, or a node whose successors are all on
\* the path, records the path (when it is not empty) and returns; otherwise
\* the frame goes on to its loop over the successors.
DfsEnter ==
    /\ ppc = "run"
    /\ Len(stack) > 0
    /\ Top.phase = "enter"
    /\ LET n == Top.node IN
       IF OutDegree(G, n) = 0
       THEN /\ all_paths' = IF PathIsTruthy(current_path)
                            THEN Append(all_paths, current_path)
                            ELSE all_paths
            /\ stack' = ReplaceTop(stack, Frame(n, "return", {}))
       ELSE IF AllSuccessorsVisited(G, n, visited) /\ PathIsTruthy(current_path)
       THEN /\ all_paths' = Append(all_paths, current_path)
            /\ stack' = ReplaceTop(stack, Frame(n, "return", {}))
       ELSE /\ all_paths' = all_paths
            /\ stack' = ReplaceTop(stack, Frame(n, "loop", Successors(G, n)))
    /\ UNCHANGED <<G, root, visited, current_path, ppc>>
    /\ UNCHANGED <<bvars, xvars>>

\* lines 137-142: the loop takes a successor that is not visited, marks it,
\* appends the edge and calls dfs on it.
DfsDescend ==
    /\ ppc = "run"
    /\ Len(stack) > 0
    /\ Top.phase = "loop"
    /\ \E s \in Top.todo :
        /\ s \notin visited
        /\ visited' = visited \cup {s}
        /\ current_path' = PathAppend(current_path, <<Top.node, s>>)
        /\ stack' = Append(ReplaceTop(stack, Frame(Top.node, "loop", Top.todo \ {s})),
                           Frame(s, "enter", {}))
    /\ UNCHANGED <<G, root, all_paths, ppc>>
    /\ UNCHANGED <<bvars, xvars>>

\* lines 137-138: the loop passes over a successor that is visited.
DfsSkip ==
    /\ ppc = "run"
    /\ Len(stack) > 0
    /\ Top.phase = "loop"
    /\ \E s \in Top.todo :
        /\ s \in visited
        /\ stack' = ReplaceTop(stack, Frame(Top.node, "loop", Top.todo \ {s}))
    /\ UNCHANGED <<G, root, visited, current_path, all_paths, ppc>>
    /\ UNCHANGED <<bvars, xvars>>

\* The loop is exhausted: the frame returns.
DfsLoopEnd ==
    /\ ppc = "run"
    /\ Len(stack) > 0
    /\ Top.phase = "loop"
    /\ Top.todo = {}
    /\ stack' = ReplaceTop(stack, Frame(Top.node, "return", {}))
    /\ UNCHANGED <<G, root, visited, current_path, all_paths, ppc>>
    /\ UNCHANGED <<bvars, xvars>>

\* A frame returns to its caller, lines 143-144 (pop the edge, unmark the
\* successor); the outermost frame returns to extract_all_paths, line 149.
DfsReturn ==
    /\ ppc = "run"
    /\ Len(stack) > 0
    /\ Top.phase = "return"
    /\ IF Len(stack) = 1
       THEN /\ ppc' = "done"
            /\ stack' = <<>>
            /\ UNCHANGED <<visited, current_path>>
       ELSE /\ ppc' = ppc
            /\ stack' = Pop(stack)
            /\ current_path' = PathPop(current_path)
            /\ visited' = VisitedAfterReturn(visited, Top.node)
    /\ UNCHANGED <<G, root, all_paths>>
    /\ UNCHANGED <<bvars, xvars>>

DfsStep == DfsEnter \/ DfsDescend \/ DfsSkip \/ DfsLoopEnd \/ DfsReturn

InitPaths == InitPathVars /\ InitBuilderVars /\ OthersIdle

NextPaths == DfsStep

SpecPaths == InitPaths /\ [][NextPaths]_vars

\* dfs is a sequential recursion: a step that can be taken is taken.
SpecPathsFair == SpecPaths /\ WF_vars(NextPaths)

(***************************************************************************)
(* Path enumeration: properties                                            *)
(***************************************************************************)

\* A simple path visits at most every node once, so it has fewer edges than
\* there are nodes.
EdgeSeqs(g) == UNION {[1..n -> g] : n \in 1..(Cardinality(Nodes) - 1)}

PathTargets(p) == {p[i][2] : i \in 1..Len(p)}

\* p starts at r and each edge starts where the previous one ends
IsChained(r, p) ==
    /\ p[1][1] = r
    /\ \A i \in 1..(Len(p) - 1) : p[i + 1][1] = p[i][2]

\* p visits no node twice and never returns to r
IsSimple(r, p) ==
    /\ r \notin PathTargets(p)
    /\ \A i, j \in 1..Len(p) : i # j => p[i][2] # p[j][2]

\* the last node of p has no successor off the path
IsMaximal(g, r, p) ==
    Successors(g, p[Len(p)][2]) \subseteq (PathTargets(p) \cup {r})

MaximalSimplePaths(g, r) ==
    {p \in EdgeSeqs(g) : IsChained(r, p) /\ IsSimple(r, p) /\ IsMaximal(g, r, p)}

ReturnedPaths == {all_paths[i] : i \in 1..Len(all_paths)}

\* C8: extract_all_paths returns exactly the maximal simple paths from the
\* root, each of them once.
PathsAreMaximalSimple ==
    ppc = "done" =>
        /\ ReturnedPaths = MaximalSimplePaths(G, root)
        /\ Len(all_paths) = Cardinality(ReturnedPaths)

\* C8 witness: a finished search over a branching graph with a cycle, which
\* returned two paths.
PathsBranchingDone ==
    /\ ppc = "done"
    /\ root = "A"
    /\ G = {<<"A", "B">>, <<"A", "C">>, <<"C", "A">>}
    /\ Len(all_paths) = 2

\* g is one root-to-sink chain: its edges are those of one simple chain from r
ChainOf(g, r) ==
    {p \in EdgeSeqs(g) :
        /\ IsChained(r, p)
        /\ IsSimple(r, p)
        /\ g = {p[i] : i \in 1..Len(p)}}

\* C9: on a graph that is a single root-to-sink chain, extract_all_paths
\* returns exactly one path: the chain's edges in order.
ChainYieldsOnePath ==
    ppc = "done" => \A p \in ChainOf(G, root) : all_paths = <<p>>

\* C9 witness: the search over A -> B -> C -> D from A has returned.
ChainABCDDone ==
    /\ ppc = "done"
    /\ root = "A"
    /\ G = {<<"A", "B">>, <<"B", "C">>, <<"C", "D">>}

CycleAB == {<<"A", "B">>, <<"B", "A">>}

\* C10: extract_all_paths terminates on every graph, and on the cycle
\* A -> B -> A with root A it returns the path [(A, B)].
PathsTerminate ==
    /\ <>(ppc = "done")
    /\ [](ppc = "done" /\ G = CycleAB /\ root = "A" => all_paths = << <<<<"A", "B">>>> >>)

\* C10 witness: the search over the cycle A -> B -> A from A has returned.
CycleABDone ==
    /\ ppc = "done"
    /\ root = "A"
    /\ G = CycleAB

\* C31: no path extract_all_paths holds is empty, and from a root whose
\* only successor, if any, is the root itself it returns the empty list.
NoEmptyPathReturned ==
    /\ \A i \in 1..Len(all_paths) : Len(all_paths[i]) >= 1
    /\ (ppc = "done" /\ Successors(G, root) \subseteq {root}) => all_paths = <<>>

\* C31 witness: the search from A, whose only edge is A -> A beside an edge
\* elsewhere, has returned no path.
SelfLoopRootDone ==
    /\ ppc = "done"
    /\ root = "A"
    /\ G = {<<"A", "A">>, <<"B", "C">>}
    /\ all_paths = <<>>

(***************************************************************************)
(* Pair composer: PoisonTextEnhancer.process_subgraph                      *)
(* (src/poison_enhancer/poison_text_enhancer.py). The prompts are opaque;  *)
(* the template entity drawn by random.choice only enters the prompt.      *)
(***************************************************************************)

\* Bound: the edges of the subgraph handed to process_subgraph.
MaxPoisonEdges == 3

\* Bound: the pair calls of one process_subgraph that yield no text.
MaxPairFailures == 1

\* self.min_entities_required, line 27
min_entities_required == 6

\* self.batch_size, line 28
enhancer_batch_size == 1

EdgeTargets == <<"Y1", "Y2", "Y3", "Y4", "Y5">>

EdgePoisons == <<"p1", "p2", "p3", "p4", "p5">>

EdgeIntents == <<"i1", "i2", "i3", "i4", "i5">>

\* An edge of graph_data.json at position j of the edges list: one with a
\* poison_text, one whose poison_text is white space, one without.
EdgeAt(j, kind) ==
    LET base == [source |-> "X", target |-> EdgeTargets[j], relation |-> "r",
                 context_intent |-> EdgeIntents[j],
                 is_core_answer |-> (kind # "plain")]
    IN  IF kind = "poisoned" THEN base @@ [poison_text |-> EdgePoisons[j]]
        ELSE IF kind = "blank" THEN base @@ [poison_text |-> " "]
        ELSE base

EdgeKinds == {"poisoned", "blank", "plain"}

EdgeLists ==
    UNION {{[j \in 1..n |-> EdgeAt(j, ks[j])] : ks \in [1..n -> EdgeKinds]}
           : n \in 0..MaxPoisonEdges}

\* str.strip() on the texts of this model
Strip(t) == IF t \in {"", " "} THEN "" ELSE t

\* lines 104-113: the record extract_poison_entities makes of an edge
PoisonEntity(edge) ==
    [poison_text |-> edge["poison_text"], context_intent |-> edge["context_intent"],
     relation |-> edge["relation"], source |-> edge["source"],
     target |-> edge["target"], is_synthetic |-> FALSE]

\* extract_poison_entities, lines 101-116
RECURSIVE extract_poison_entities(_, _)
extract_poison_entities(edges, j) ==
    IF j > Len(edges) THEN <<>>
    ELSE IF Has(edges[j], "poison_text") /\ Strip(edges[j]["poison_text"]) # ""
    THEN <<PoisonEntity(edges[j])>> \o extract_poison_entities(edges, j + 1)
    ELSE extract_poison_entities(edges, j + 1)

\* line 305: the number of batches, and the i-th of them (i from 1)
NumBatches(orig) == (Len(orig) + enhancer_batch_size - 1) \div enhancer_batch_size

BatchAt(orig, i) ==
    SubSeq(orig, (i - 1) * enhancer_batch_size + 1,
           MinOf(i * enhancer_batch_size, Len(orig)))

\* line 312: max(0, self.min_entities_required - len(batch))
EntitiesNeeded(b) ==
    IF min_entities_required - Len(b) > 0
    THEN min_entities_required - Len(b) ELSE 0

SynthTexts == <<"s1", "s2", "s3", "s4", "s5", "s6">>

\* An entity of the synthesizer's JSON list
SynthEntity(k) ==
    [poison_text |-> SynthTexts[k], context_intent |-> "si", relation |-> "sr",
     source |-> "X", target |-> SynthTexts[k]]

\* What the synthesizer's call_llm and json.loads may give, lines 183-195:
\* no response, a text json.loads rejects, a value that is no list of
\* objects, the empty list, a list of as many entities as were asked for, a
\* list whose entity has no context_intent.
SynthResponses(n) ==
    {RespNone, RespGarbage, RespWrongType, RespList(<<>>),
     RespList([k \in 1..n |-> SynthEntity(k)]),
     RespList(<<[poison_text |-> "s1"]>>)}

MarkSyntheticFalse(entity) == [is_synthetic |-> FALSE] @@ entity

\* line 197: entity["is_synthetic"] = True
MarkSynthetic(entity) == [is_synthetic |-> TRUE] @@ entity

\* generate_synthetic_poison_entities from its response on, lines 184-203
SyntheticEntities(resp) ==
    IF resp.kind = "list"
    THEN [k \in 1..Len(resp.items) |-> MarkSynthetic(resp.items[k])]
    ELSE <<>>

\* line 257: itertools.combinations(batch, 2), from position i on
RECURSIVE Combinations2(_, _)
Combinations2(b, i) ==
    IF i >= Len(b) THEN <<>>
    ELSE [j \in 1..(Len(b) - i) |-> <<b[i], b[i + j]>>] \o Combinations2(b, i + 1)

\* line 258: itertools.product(batch, synthetic_entities)
Product(b, syn) ==
    [k \in 1..(Len(b) * Len(syn)) |->
        <<b[((k - 1) \div Len(syn)) + 1], syn[((k - 1) % Len(syn)) + 1]>>]

\* lines 257-259: entity_pairs
EntityPairs(b, syn) == Combinations2(b, 1) \o Product(b, syn)

\* The first batch from the i-th on that has a gateway call to make: the
\* synthesizer's when entities are needed (lines 312-320), else that of its
\* first pair (lines 257-266); "collected" when the loop of line 311 is over
RECURSIVE EnterBatch(_, _)
EnterBatch(orig, i) ==
    IF i > NumBatches(orig)
    THEN [epc |-> "collected", batch_idx |-> i, pairs |-> <<>>]
    ELSE IF EntitiesNeeded(BatchAt(orig, i)) > 0
    THEN [epc |-> "synthesize", batch_idx |-> i, pairs |-> <<>>]
    ELSE LET ps == EntityPairs(BatchAt(orig, i), <<>>) IN
         IF ps # <<>> THEN [epc |-> "pairs", batch_idx |-> i, pairs |-> ps]
         ELSE EnterBatch(orig, i + 1)

\* lines 337-343 (and 297-303): the dict process_subgraph returns
EnhancementResult(orig, total, texts, aggregated) ==
    [core_entity |-> "X",
     original_entities_count |-> Len(orig),
     synthetic_entities_count |-> total,
     enhancement_texts |-> texts,
     aggregated_text |-> aggregated]

\* process_subgraph goes on from batch i: to the next gateway call, or, when
\* the batches are over, to the aggregation (line 333) or, with no text
\* collected, to its return
Proceed(orig, i, texts, total, comp) ==
    LET e == EnterBatch(orig, i) IN
    /\ batch_idx' = e.batch_idx
    /\ entity_pairs' = e.pairs
    /\ pair_idx' = 0
    /\ composed' = comp \o e.pairs
    /\ IF e.epc # "collected"
       THEN /\ epc' = e.epc
            /\ enhancement_result' = None
       ELSE IF texts # <<>>
       THEN /\ epc' = "aggregate"
            /\ enhancement_result' = None
       ELSE /\ epc' = "done"
            /\ enhancement_result' = EnhancementResult(orig, total, texts, <<>>)

\* process_subgraph is called, lines 289-311
ProcessSubgraph ==
    /\ epc = "idle"
    /\ LET orig == extract_poison_entities(subgraph_edges, 1) IN
        /\ original_poison_entities' = orig
        /\ Proceed(orig, 1, <<>>, 0, <<>>)
    /\ UNCHANGED <<subgraph_edges, synthetic_entities, count_requested,
                   all_enhancement_texts, total_synthetic_entities>>
    /\ UNCHANGED <<bvars, pvars, gvars, vvars, svars,
                 fvars, lvars, mvars>>

\* lines 312-321 and 257-261: the synthesizer is asked for the entities the
\* batch lacks, and the pairs of the batch are composed
Synthesize ==
    /\ epc = "synthesize"
    /\ LET b == BatchAt(original_poison_entities, batch_idx)
           needed == EntitiesNeeded(b)
       IN  \E resp \in SynthResponses(needed) :
            LET syn == SyntheticEntities(resp)
                ps == EntityPairs(b, syn)
                total == total_synthetic_entities + Len(syn)
            IN  /\ count_requested' = Append(count_requested, needed)
                /\ synthetic_entities' = syn
                /\ total_synthetic_entities' = total
                /\ IF ps # <<>>
                   THEN /\ epc' = "pairs"
                        /\ entity_pairs' = ps
                        /\ pair_idx' = 0
                        /\ composed' = composed \o ps
                        /\ UNCHANGED <<batch_idx, enhancement_result>>
                   ELSE Proceed(original_poison_entities, batch_idx + 1,
                                all_enhancement_texts, total, composed)
    /\ UNCHANGED <<subgraph_edges, original_poison_entities, all_enhancement_texts>>
    /\ UNCHANGED <<bvars, pvars, gvars, vvars, svars,
                 fvars, lvars, mvars>>

\* What call_llm may return to generate_enhancement_for_pair: nothing, white
\* space, a paragraph, a paragraph in double quotes
PairResponses == {"", " ", "t", "\"t\""}

\* lines 241-252: the text generate_enhancement_for_pair returns
EnhancementText(response) ==
    IF response = "" THEN ""
    ELSE IF Strip(response) = "\"t\"" THEN "t"
    ELSE Strip(response)

\* the keys of a pair's entities that lines 215-218 read
PairReadable(pair) ==
    /\ Has(pair[1], "context_intent") /\ Has(pair[1], "poison_text")
    /\ Has(pair[2], "context_intent") /\ Has(pair[2], "poison_text")

\* lines 273-285: the entry appended for a pair
EnhancementEntry(pair, text) ==
    [entity1 |-> [poison_text |-> pair[1]["poison_text"],
                  context_intent |-> pair[1]["context_intent"],
                  is_synthetic |-> IF Has(pair[1], "is_synthetic")
                                   THEN pair[1]["is_synthetic"] ELSE FALSE],
     entity2 |-> [poison_text |-> pair[2]["poison_text"],
                  context_intent |-> pair[2]["context_intent"],
                  is_synthetic |-> IF Has(pair[2], "is_synthetic")
                                   THEN pair[2]["is_synthetic"] ELSE FALSE],
     enhancement_text |-> text]

\* the pair calls made so far that yielded no text
PairFailures ==
    (Len(composed) - Len(entity_pairs)) + pair_idx - Len(all_enhancement_texts)

\* lines 264-285, one turn of the loop of process_entity_batch; a pair
\* whose entity lacks a key raises KeyError out of process_subgraph
EnhancePair ==
    /\ epc = "pairs"
    /\ pair_idx < Len(entity_pairs)
    /\ LET pair == entity_pairs[pair_idx + 1] IN
       IF ~PairReadable(pair)
       THEN /\ epc' = "raised"
            /\ UNCHANGED <<batch_idx, entity_pairs, pair_idx, composed,
                           all_enhancement_texts, enhancement_result>>
       ELSE \E response \in PairResponses :
            LET text == EnhancementText(response)
                texts == IF text # ""
                         THEN Append(all_enhancement_texts, EnhancementEntry(pair, text))
                         ELSE all_enhancement_texts
            IN  /\ text = "" => PairFailures < MaxPairFailures
                /\ all_enhancement_texts' = texts
                /\ IF pair_idx + 1 < Len(entity_pairs)
                   THEN /\ pair_idx' = pair_idx + 1
                        /\ UNCHANGED <<epc, batch_idx, entity_pairs, composed,
                                       enhancement_result>>
                   ELSE Proceed(original_poison_entities, batch_idx + 1, texts,
                                total_synthetic_entities, composed)
    /\ UNCHANGED <<subgraph_edges, original_poison_entities, synthetic_entities,
                   count_requested, total_synthetic_entities>>
    /\ UNCHANGED <<bvars, pvars, gvars, vvars, svars,
                 fvars, lvars, mvars>>

\* What call_llm may return to aggregate_enhancement_texts_with_llm
AggregateResponses == {"", " ", "agg"}

\* lines 345-354: the texts joined by blank lines, as the list of its
\* paragraphs
aggregate_enhancement_texts(texts) ==
    [k \in 1..Len(texts) |-> texts[k]["enhancement_text"]]

\* lines 384-390: the aggregated text as the list of its paragraphs
AggregatedText(response, texts) ==
    IF response = "" THEN aggregate_enhancement_texts(texts)
    ELSE IF Strip(response) = "" THEN <<>>
    ELSE <<Strip(response)>>

\* lines 332-343: the texts are aggregated and process_subgraph returns
Aggregate ==
    /\ epc = "aggregate"
    /\ \E response \in AggregateResponses :
        /\ enhancement_result' =
            EnhancementResult(original_poison_entities, total_synthetic_entities,
                              all_enhancement_texts,
                              AggregatedText(response, all_enhancement_texts))
    /\ epc' = "done"
    /\ UNCHANGED <<subgraph_edges, original_poison_entities, batch_idx,
                   synthetic_entities, count_requested, entity_pairs, pair_idx,
                   composed, all_enhancement_texts, total_synthetic_entities>>
    /\ UNCHANGED <<bvars, pvars, gvars, vvars, svars,
                 fvars, lvars, mvars>>

EnhancerStep == ProcessSubgraph \/ Synthesize \/ EnhancePair \/ Aggregate

\* process_subgraph is about to be called on a subgraph of graph_data.json
InitEnhancerVars ==
    /\ subgraph_edges \in EdgeLists
    /\ original_poison_entities = <<>>
    /\ batch_idx = 0
    /\ synthetic_entities = <<>>
    /\ count_requested = <<>>
    /\ entity_pairs = <<>>
    /\ pair_idx = 0
    /\ composed = <<>>
    /\ all_enhancement_texts = <<>>
    /\ total_synthetic_entities = 0
    /\ enhancement_result = None
    /\ epc = "idle"

InitEnhancer ==
    /\ InitEnhancerVars /\ InitBuilderVars /\ PathsIdle
    /\ GatewayIdle /\ ValidatorIdle /\ SaveIdle /\ LaterStagesIdle

NextEnhancer == EnhancerStep

SpecEnhancer == InitEnhancer /\ [][NextEnhancer]_vars

(***************************************************************************)
(* Pair composer: properties                                               *)
(***************************************************************************)

RECURSIVE SumSeq(_, _)
SumSeq(q, i) == IF i > Len(q) THEN 0 ELSE q[i] + SumSeq(q, i + 1)

\* C11: for a core entity with 3 original poisoned edges (and
\* min_entities_required = 6), when the synthesizer returns as many entities
\* as it is asked for, exactly 3 synthetic entities are requested in total
\* and C(3,2) + 3*3 = 12 pairs are composed.
PairComposerMinimumPadding ==
    (/\ epc \in {"aggregate", "done"}
     /\ Len(original_poison_entities) = 3
     /\ total_synthetic_entities = SumSeq(count_requested, 1)) =>
        /\ SumSeq(count_requested, 1) = 3
        /\ Len(composed) = 12

\* The positions of composed that hold a pair of two original entities, and
\* those that hold an original and a synthetic one
OriginalPairsAt ==
    {k \in 1..Len(composed) :
        ~composed[k][1]["is_synthetic"] /\ ~composed[k][2]["is_synthetic"]}

SyntheticPairsAt ==
    {k \in 1..Len(composed) :
        ~composed[k][1]["is_synthetic"] /\ composed[k][2]["is_synthetic"]}

\* C22: when the pairs of a core entity are all composed, every two distinct
\* original poisoned edges make exactly one of the composed pairs, and there
\* are no other pairs of two originals: C(n,2) of them for n originals.
OriginalPairsAllEmitted ==
    epc \in {"aggregate", "done"} =>
        LET orig == original_poison_entities
            n == Len(orig)
        IN  /\ \A i \in 1..n : \A j \in (i + 1)..n :
                Cardinality({k \in OriginalPairsAt :
                                {composed[k][1], composed[k][2]} = {orig[i], orig[j]}}) = 1
            /\ Cardinality(OriginalPairsAt) * 2 = n * (n - 1)

\* C23: when every call of the synthesizer has yielded no entity,
\* process_subgraph has not raised and the pairs composed are exactly the
\* pairs of two distinct original poisoned edges.
SynthesizerFailureDegrades ==
    (count_requested # <<>> /\ total_synthetic_entities = 0) =>
        /\ epc # "raised"
        /\ epc \in {"aggregate", "done"} =>
            LET n == Len(original_poison_entities) IN
            /\ OriginalPairsAt = 1..Len(composed)
            /\ Len(composed) * 2 = n * (n - 1)

\* C28: when the pairs of a core entity with n originals and m synthetic
\* entities are all composed, n * m of them pair an original (first) with a
\* synthetic entity (second), and no pair has a synthetic entity first.
CrossProductIsFull ==
    epc \in {"aggregate", "done"} =>
        /\ Cardinality(SyntheticPairsAt)
              = Len(original_poison_entities) * total_synthetic_entities
        /\ \A k \in 1..Len(composed) : ~composed[k][1]["is_synthetic"]

(***************************************************************************)
(* The validator on its own: validate_extraction_result, and the           *)
(* normalization extract_relations applies after a True verdict            *)
(***************************************************************************)

\* Bound: the relations of the parsed objects handed to the validator.
MaxRelations == 2

\* The query_analysis of a parsed object: absent, not an object, an object
\* without core_entity, with an empty one, with one
AnalysisParts ==
    {EmptyMap}
        \cup {[query_analysis |-> a] :
                a \in {NotADict, [core_question_type |-> "who"],
                       [core_entity |-> ""], [core_entity |-> "X"]}}

\* Its entities: absent, empty, two entities
EntityParts == {EmptyMap, [entities |-> <<>>], [entities |-> EntsA]}

RelationChoices == {RCore("a1"), RCore("a2"), RPlain, ROther, RCoreNoPoison}

\* Its relations: absent, empty, up to MaxRelations relations
RelationParts ==
    {EmptyMap, [relations |-> <<>>]}
        \cup UNION {{[relations |-> rs] : rs \in [1..n -> RelationChoices]}
                    : n \in 1..MaxRelations}

ParsedObjects ==
    {a @@ e @@ r : a \in AnalysisParts, e \in EntityParts, r \in RelationParts}

\* extract_relations, lines 168-182, on the parsed object vdata: the unit is
\* attached, the validator is called and, when it returns True, the
\* relations are normalized and the object is emitted
ValidateParsed ==
    /\ vpc = "parsed"
    /\ LET data == Attach(vdata, "q1", vanswer)
           v == ValidateOutcome(data, "q1", vanswer)
       IN  /\ vresult' = v
           /\ vaccepted' = IF v = "valid" THEN RespDict(Normalize(data, vanswer))
                           ELSE None
    /\ vpc' = "done"
    /\ UNCHANGED <<vdata, vanswer>>
    /\ UNCHANGED <<bvars, pvars, gvars, evars, svars,
                 fvars, lvars, mvars>>

\* json.loads has returned an object, line 167
InitValidatorVars ==
    /\ vdata \in ParsedObjects
    /\ vanswer \in {"a1", "a2"}
    /\ vresult = "none"
    /\ vaccepted = None
    /\ vpc = "parsed"

InitValidator ==
    /\ InitValidatorVars /\ InitBuilderVars /\ PathsIdle
    /\ GatewayIdle /\ EnhancerIdle /\ SaveIdle /\ LaterStagesIdle

NextValidator == ValidateParsed

SpecValidator == InitValidator /\ [][NextValidator]_vars

(***************************************************************************)
(* The validator: properties                                               *)
(***************************************************************************)

\* the positions of the relations of d marked is_core_answer = true
CoreRelations(d) == {i \in 1..Len(d["relations"]) : IsCore(d["relations"][i])}

\* d lacks query_analysis, or a non-empty core_entity, or has no entities,
\* or no relations, or no relation marked is_core_answer = true
LacksRequired(d) ==
    \/ ~Has(d, "query_analysis")
    \/ ~IsDict(d["query_analysis"])
    \/ ~Has(d["query_analysis"], "core_entity")
    \/ d["query_analysis"]["core_entity"] = ""
    \/ ~Has(d, "entities")
    \/ d["entities"] = <<>>
    \/ ~Has(d, "relations")
    \/ d["relations"] = <<>>
    \/ CoreRelations(d) = {}

\* C12: the validator returns False for every parsed object that lacks
\* query_analysis, a non-empty core_entity, entities, relations or a
\* core-answer relation, and True for every object that has them all and
\* whose core-answer relations carry poison_text equal to answer.
ValidatorSound ==
    vpc = "done" =>
        /\ LacksRequired(vdata) => vresult = "invalid"
        /\ (/\ ~LacksRequired(vdata)
            /\ \A i \in CoreRelations(vdata) :
                /\ Has(vdata["relations"][i], "poison_text")
                /\ vdata["relations"][i]["poison_text"] = vanswer) =>
                    vresult = "valid"

\* C13: an object that has all the required parts is failed only when a
\* core-answer relation carries a poison_text other than answer; when its
\* core-answer relation has no poison_text it is judged valid and emitted
\* with poison_text = answer on that relation.
AbsentPoisonTextIsBackfilled ==
    (vpc = "done" /\ ~LacksRequired(vdata)) =>
        /\ vresult # "valid" =>
            \E i \in CoreRelations(vdata) :
                /\ Has(vdata["relations"][i], "poison_text")
                /\ vdata["relations"][i]["poison_text"] # vanswer
        /\ (\A i \in CoreRelations(vdata) : ~Has(vdata["relations"][i], "poison_text")) =>
                /\ vresult = "valid"
                /\ vaccepted.kind = "dict"
                /\ \A i \in CoreRelations(vdata) :
                    /\ Has(vaccepted.data["relations"][i], "poison_text")
                    /\ vaccepted.data["relations"][i]["poison_text"] = vanswer

(***************************************************************************)
(* Knowledge-graph builder: properties of the accepted fragments and of    *)
(* the extraction controller                                               *)
(***************************************************************************)

\* fragment f has at most one relation marked is_core_answer = true, and
\* each such relation carries a non-empty poison_text equal to the unit's
\* incorrect answer
OneCoreWithAnswer(f) ==
    Has(f, "relations") =>
        /\ Cardinality(CoreRelations(f)) <= 1
        /\ \A i \in CoreRelations(f) :
            /\ Has(f["relations"][i], "poison_text")
            /\ f["relations"][i]["poison_text"] # ""
            /\ f["relations"][i]["poison_text"] = f["original_answer"]

\* C14: every fragment extract_relations or extract_batch_relations returns
\* has at most one core-answer relation, and each core-answer relation of
\* it carries a non-empty poison_text equal to original_answer.
AcceptedFragmentsHaveOneCore ==
    /\ pc = "merge" => \A i \in 1..Len(results) : OneCoreWithAnswer(results[i])
    /\ (pc = "single_returned" /\ single_result.kind = "dict") =>
            OneCoreWithAnswer(single_result.data)

\* extract_batch_relations has returned [] because extract_relations, called
\* for unit idx, raised instead of returning
ExtractRelationsRaised ==
    /\ pc = "merge"
    /\ idx \in 1..Len(batch)
    /\ attempts[idx] >= 1

\* C17: extract_relations makes at most two gateway calls for a unit: the
\* primary one and, exactly when the primary response parsed and the
\* validator returned False, one guided retry, after which it returns; a
\* call of extract_relations always ends with a fragment or None returned.
AtMostOneGuidedRetry ==
    /\ ~ExtractRelationsRaised
    /\ calls <= 2
    /\ pc = "single_call" => (calls = 0 /\ ENABLED SingleCall)
    /\ pc = "retry_call" =>
        /\ calls = 1
        /\ primary = [kind |-> "dict", verdict |-> "invalid"]
        /\ ENABLED RetryCall
    /\ pc = "single_returned" =>
        /\ calls \in {1, 2}
        /\ calls = 2 <=> primary.verdict = "invalid"
        /\ single_result.kind \in {"dict", "none"}

\* With format-safe templates, extract_relations has returned the fragment
\* of its guided retry, after two calls.
GuidedRetryReturned ==
    /\ pc = "single_returned"
    /\ calls = 2
    /\ primary.verdict = "invalid"
    /\ single_result.kind = "dict"

\* C24: when the primary call of extract_relations fails or its response is
\* no JSON object, extract_relations returns None after that one call: the
\* guided retry is only ever entered after a response that parsed.
PrimaryFailureRejectsAtOnce ==
    /\ pc = "retry_call" => primary.kind = "dict"
    /\ (pc = "single_returned" /\ primary.kind \in {"none", "garbage", "wrong_type"}) =>
            /\ calls = 1
            /\ single_result = None

\* C24 witness: extract_relations has returned None after one call whose
\* response json.loads rejected.
UnparsedPrimaryRejected ==
    /\ pc = "single_returned"
    /\ primary.kind = "garbage"
    /\ calls = 1
    /\ single_result = None

\* C25: every relation of a fragment extract_relations returns, from its
\* first attempt or from the guided retry, has an is_core_answer field.
EmittedFragmentsAreNormalized ==
    (pc = "single_returned" /\ single_result.kind = "dict") =>
        /\ Has(single_result.data, "relations")
        /\ \A i \in 1..Len(single_result.data["relations"]) :
                Has(single_result.data["relations"][i], "is_core_answer")

\* The core entity a fragment names, "" when it names none
CoreOf(f) ==
    IF Has(f, "query_analysis") /\ IsDict(f["query_analysis"])
       /\ Has(f["query_analysis"], "core_entity")
    THEN f["query_analysis"]["core_entity"] ELSE ""

\* C26: after a fragment is merged, every entity it names is a node of its
\* core entity's graph with the type and context_role the fragment gives it,
\* whatever the node carried before, in the in-memory graph and in the
\* persisted graph structure.
NodeUpsertLastWriteWins ==
    pc = "idle" =>
        \A f \in CandidateFragments :
            LET m == MergeFragment(graphs, f)
                gd == GraphData(Append(all_data, f))
                c == CoreOf(f)
            IN  m.ok =>
                    \A i \in 1..Len(f["entities"]) :
                        LET e == f["entities"][i] IN
                        /\ m.graphs[c].nodes[e["name"]]["type"] = e["type"]
                        /\ m.graphs[c].nodes[e["name"]]["context_role"] = e["context_role"]
                        /\ \E j \in 1..Len(gd[c].nodes) :
                            /\ gd[c].nodes[j]["id"] = e["name"]
                            /\ gd[c].nodes[j]["type"] = e["type"]
                            /\ gd[c].nodes[j]["context_role"] = e["context_role"]

\* new is old, or old with a poison_text it did not have
SameOrEnriched(old, new) ==
    \/ new = old
    \/ /\ ~Has(old, "poison_text")
       /\ Has(new, "poison_text")
       /\ new = old @@ [poison_text |-> new["poison_text"]]

\* C27: merging a relation whose source, target and relation equal those of
\* an existing edge leaves that edge as it was, but for a poison_text added
\* to an edge that had none, in the in-memory graph and in the persisted
\* edge list.
EdgeAttributesFirstSeenWin ==
    pc = "idle" =>
        \A r \in CatalogRelations :
            /\ \A c \in DOMAIN graphs :
                LET k == <<r["source"], r["target"]>>
                    g == graphs[c]
                IN  (k \in DOMAIN g.edges /\ g.edges[k]["relation"] = r["relation"]) =>
                        SameOrEnriched(g.edges[k],
                            AddEdge(g, r["source"], r["target"], EdgeAttrs(r)).edges[k])
            /\ \A c \in DOMAIN GraphData(all_data) :
                LET edges == GraphData(all_data)[c].edges
                    new == SaveEdge(edges, SavedEdge(r))
                IN  \A j \in 1..Len(edges) :
                        SameKey(edges[j], r) =>
                            /\ Len(new) = Len(edges)
                            /\ SameOrEnriched(edges[j], new[j])

\* C29: merging a fragment changes no graph but that of its core entity, and
\* two fragments with different core entities give the same graphs, in
\* memory and persisted, in whichever order they are merged.
MergesOfDifferentCoresIndependent ==
    pc = "idle" =>
        LET saved == GraphData(all_data) IN
        \A f \in CandidateFragments :
            LET mf == MergeFragment(graphs, f) IN
            /\ \A c \in DOMAIN graphs :
                c # CoreOf(f) => (c \in DOMAIN mf.graphs /\ mf.graphs[c] = graphs[c])
            /\ DOMAIN mf.graphs \subseteq DOMAIN graphs \cup {CoreOf(f)}
            /\ \A g \in CandidateFragments :
                LET mg == MergeFragment(graphs, g) IN
                (CoreOf(f) # CoreOf(g) /\ mf.ok /\ mg.ok) =>
                    /\ MergeFragment(mf.graphs, g).graphs = MergeFragment(mg.graphs, f).graphs
                    /\ GraphDataFrom(saved, <<f, g>>, 1) = GraphDataFrom(saved, <<g, f>>, 1)

\* C29 witness: the builder holds the graphs of two core entities, each made
\* of one fragment.
TwoCoreEntitiesMerged ==
    /\ pc = "idle"
    /\ Len(all_data) = 2
    /\ CoreOf(all_data[1]) # CoreOf(all_data[2])
    /\ DOMAIN graphs = {CoreOf(all_data[1]), CoreOf(all_data[2])}
    /\ graphs[CoreOf(all_data[1])] = MergeFragment(EmptyMap, all_data[1]).graphs[CoreOf(all_data[1])]
    /\ graphs[CoreOf(all_data[2])] = MergeFragment(EmptyMap, all_data[2]).graphs[CoreOf(all_data[2])]

\* One step keeps every graph, node and edge there is, and a graph it
\* creates is that of the core entity of a fragment it logs.
GraphsGrowInStep ==
    /\ \A c \in DOMAIN graphs :
        /\ c \in DOMAIN graphs'
        /\ DOMAIN graphs[c].nodes \subseteq DOMAIN graphs'[c].nodes
        /\ DOMAIN graphs[c].edges \subseteq DOMAIN graphs'[c].edges
    /\ \A c \in DOMAIN graphs' \ DOMAIN graphs :
        \E i \in (Len(all_data) + 1)..Len(all_data') : CoreOf(all_data'[i]) = c

\* C30: over any sequence of build_knowledge_graph calls, with whatever
\* extraction failures, no graph, node or edge is ever removed, and a graph
\* appears only with a fragment naming its core entity.
GraphsOnlyGrow == [][GraphsGrowInStep]_vars

\* C30 witness: after two builds, one whose unit failed and one whose
\* fragment was merged, the graph of the merged fragment is there.
GraphKeptAcrossFailure ==
    /\ pc = "idle"
    /\ handed = 2
    /\ Len(failed_queries) = 1
    /\ Len(all_data) = 1
    /\ DOMAIN graphs = {CoreOf(all_data[1])}

\* C18: a first response json.loads rejects gets the unit one more call of
\* the single-unit extraction before the unit is given up, and a batch
\* response json.loads rejects gets every unit of the batch its fallback.
MalformedResponseIsRetried ==
    /\ (pc = "single_returned" /\ primary.kind = "garbage") => calls = 2
    /\ (pc = "merge" /\ batch_data.kind = "garbage") =>
            \A k \in 1..Len(batch) : attempts[k] = 1

\* the edges of in-memory graph g that carry poison_text p
EdgesWithPoison(g, p) ==
    {k \in DOMAIN g.edges :
        Has(g.edges[k], "poison_text") /\ g.edges[k]["poison_text"] = p}

\* C19: with a stub gateway that returns Example 1 of the prompt, building
\* the graph of the unit of Example 1 yields a graph under "FAIR" with 3
\* nodes and 2 edges, exactly one of them with poison_text "YANN LECUN", and
\* no failed query.
FairEndToEnd ==
    (/\ pc = "merge"
     /\ gateway = Stub(RespDict(ShapeFair))
     /\ batch = <<FairUnit>>
     /\ handed = 1) =>
        LET m == MergeAll(graphs, all_data, results, 1) IN
        /\ m.ok
        /\ failed_queries = <<>>
        /\ "FAIR" \in DOMAIN m.graphs
        /\ Cardinality(DOMAIN m.graphs["FAIR"].nodes) = 3
        /\ Cardinality(DOMAIN m.graphs["FAIR"].edges) = 2
        /\ Cardinality(EdgesWithPoison(m.graphs["FAIR"], "YANN LECUN")) = 1
        /\ Cardinality({k \in DOMAIN m.graphs["FAIR"].edges :
                            Has(m.graphs["FAIR"].edges[k], "poison_text")}) = 1

(***************************************************************************)
(* Reload: the graphs load_knowledge_graph and build_networkx_graph make   *)
(* of a subgraph of graph_data.json                                        *)
(***************************************************************************)

\* the dict d without the keys ks
Without(d, ks) == [k \in DOMAIN d \ ks |-> d[k]]

\* lines 420-422 (generator: 105-107)
RECURSIVE LoadNodes(_, _, _)
LoadNodes(g, nodes, j) ==
    IF j > Len(nodes) THEN g
    ELSE LoadNodes(AddNode(g, nodes[j]["id"], Without(nodes[j], {"id"})), nodes, j + 1)

\* lines 424-427 (generator: 109-113)
RECURSIVE LoadEdges(_, _, _)
LoadEdges(g, edges, j) ==
    IF j > Len(edges) THEN g
    ELSE LoadEdges(AddEdge(g, edges[j]["source"], edges[j]["target"],
                           Without(edges[j], {"source", "target"})),
                   edges, j + 1)

\* lines 418-429 (generator: 102-115): the DiGraph of one core entity
LoadGraph(sub) == LoadEdges(LoadNodes(EmptyGraph, sub.nodes, 1), sub.edges, 1)

\* C20: the graph loaded from what save_knowledge_graph wrote has, for
\* every core entity, one node per persisted node and one edge per persisted
\* edge, each with exactly the persisted attributes.
ReloadRoundTrip ==
    pc = "idle" =>
        \A c \in DOMAIN GraphData(all_data) :
            LET sub == GraphData(all_data)[c]
                g == LoadGraph(sub)
            IN  /\ Cardinality(DOMAIN g.nodes) = Len(sub.nodes)
                /\ \A j \in 1..Len(sub.nodes) :
                    g.nodes[sub.nodes[j]["id"]] = Without(sub.nodes[j], {"id"})
                /\ Cardinality(DOMAIN g.edges) = Len(sub.edges)
                /\ \A j \in 1..Len(sub.edges) :
                    g.edges[<<sub.edges[j]["source"], sub.edges[j]["target"]>>]
                        = Without(sub.edges[j], {"source", "target"})

\* ======================================================================
\* The gateway: call_llm, one step per requests.post
\* ======================================================================

\* Largest max_retries and retry_delay a call is made with.  Every caller in
\* the repository uses the defaults (3 and 2); the smaller and larger values
\* cover the loop that does not run and the backoff with another base.
MaxRetries == 3

MaxRetryDelay == 2

default_max_retries == 3

default_retry_delay == 2

\* The texts a well-formed success body can carry in
\* choices[0].message.content.
Contents == {"t1", "t2"}

\* What one requests.post can come to, as the kind of a logged post:
\* "success" (status 200 with a body holding a text), "null_content" (status
\* 200 with a body whose content is null), "malformed" (status 200 with a
\* body that response.json() or the subscripts reject), "rate_limit" (status
\* 429), "error_status" (any other status) and "transport" (an exception
\* raised by requests.post itself).
PostKinds ==
    {"success", "null_content", "malformed", "rate_limit", "error_status", "transport"}

\* A text as the value call_llm returns.
ReturnedText(c) == [kind |-> "text", text |-> c]

\* "for attempt in range(max_retries)": the body runs for attempt below
\* max_retries.
LoopRunsOnceMore(a, m) == a <= m

LoopRuns(a, m) == a < m

\* wait_time = retry_delay * (attempt + 1), attempt counted from 0.
WaitTimeZeroBased(d, a) == d * a

WaitTime(d, a) == d * (a + 1)

\* "if attempt < max_retries - 1": another attempt follows this one.
LastAttempt(a, m) == ~(a < m - 1)

\* call_llm(prompt, max_retries, retry_delay) is entered.
CallLlm ==
    /\ gpc = "idle"
    /\ \E m \in 0..MaxRetries, d \in 1..MaxRetryDelay :
        /\ max_retries' = m
        /\ retry_delay' = d
    /\ attempt' = 0
    /\ posts' = <<>>
    /\ waits' = <<>>
    /\ llm_result' = None
    /\ gpc' = "loop"
    /\ UNCHANGED <<bvars, pvars, vvars, evars, svars,
                 fvars, lvars, mvars>>

\* Status 200 and a body with a text: the text is returned.
GatewaySuccess ==
    /\ gpc = "loop"
    /\ LoopRuns(attempt, max_retries)
    /\ \E c \in Contents :
        /\ posts' = Append(posts, [kind |-> "success", content |-> c])
        /\ llm_result' = ReturnedText(c)
    /\ gpc' = "returned"
    /\ UNCHANGED <<max_retries, retry_delay, attempt, waits>>
    /\ UNCHANGED <<bvars, pvars, vvars, evars, svars,
                 fvars, lvars, mvars>>

\* Status 200 and a body whose content is null: the null is returned.
GatewayNullContent ==
    /\ gpc = "loop"
    /\ LoopRuns(attempt, max_retries)
    /\ posts' = Append(posts, [kind |-> "null_content"])
    /\ llm_result' = None
    /\ gpc' = "returned"
    /\ UNCHANGED <<max_retries, retry_delay, attempt, waits>>
    /\ UNCHANGED <<bvars, pvars, vvars, evars, svars,
                 fvars, lvars, mvars>>

\* Status 429: sleep and continue, on the last attempt as well.
GatewayRateLimited ==
    /\ gpc = "loop"
    /\ LoopRuns(attempt, max_retries)
    /\ posts' = Append(posts, [kind |-> "rate_limit"])
    /\ waits' = Append(waits, WaitTime(retry_delay, attempt))
    /\ attempt' = attempt + 1
    /\ UNCHANGED <<max_retries, retry_delay, llm_result, gpc>>
    /\ UNCHANGED <<bvars, pvars, vvars, evars, svars,
                 fvars, lvars, mvars>>

\* Another status (lines 58-66): sleep unless this was the last attempt,
\* return None then.
GatewayErrorStatus ==
    /\ gpc = "loop"
    /\ LoopRuns(attempt, max_retries)
    /\ posts' = Append(posts, [kind |-> "error_status"])
    /\ IF LastAttempt(attempt, max_retries)
       THEN /\ llm_result' = None
            /\ gpc' = "returned"
            /\ UNCHANGED <<attempt, waits>>
       ELSE /\ waits' = Append(waits, WaitTime(retry_delay, attempt))
            /\ attempt' = attempt + 1
            /\ UNCHANGED <<llm_result, gpc>>
    /\ UNCHANGED <<max_retries, retry_delay>>
    /\ UNCHANGED <<bvars, pvars, vvars, evars, svars,
                 fvars, lvars, mvars>>

\* The except clause (lines 67-74), reached by an exception of requests.post
\* or of reading a status-200 body: the same as for another status.
GatewayException ==
    /\ gpc = "loop"
    /\ LoopRuns(attempt, max_retries)
    /\ \E k \in {"transport", "malformed"} :
        posts' = Append(posts, [kind |-> k])
    /\ IF LastAttempt(attempt, max_retries)
       THEN /\ llm_result' = None
            /\ gpc' = "returned"
            /\ UNCHANGED <<attempt, waits>>
       ELSE /\ waits' = Append(waits, WaitTime(retry_delay, attempt))
            /\ attempt' = attempt + 1
            /\ UNCHANGED <<llm_result, gpc>>
    /\ UNCHANGED <<max_retries, retry_delay>>
    /\ UNCHANGED <<bvars, pvars, vvars, evars, svars,
                 fvars, lvars, mvars>>

\* The loop is over (or never ran): line 76 returns None.
GatewayExhausted ==
    /\ gpc = "loop"
    /\ ~LoopRuns(attempt, max_retries)
    /\ llm_result' = None
    /\ gpc' = "returned"
    /\ UNCHANGED <<max_retries, retry_delay, attempt, posts, waits>>
    /\ UNCHANGED <<bvars, pvars, vvars, evars, svars,
                 fvars, lvars, mvars>>

InitGateway ==
    /\ GatewayIdle /\ InitBuilderVars /\ PathsIdle
    /\ ValidatorIdle /\ EnhancerIdle /\ SaveIdle /\ LaterStagesIdle

NextGateway ==
    \/ CallLlm
    \/ GatewaySuccess
    \/ GatewayNullContent
    \/ GatewayRateLimited
    \/ GatewayErrorStatus
    \/ GatewayException
    \/ GatewayExhausted

SpecGateway == InitGateway /\ [][NextGateway]_vars

\* ----------------------------------------------------------------------
\* Gateway properties
\* ----------------------------------------------------------------------

FailureKinds == PostKinds \ {"success", "null_content"}

\* C15: call_llm never raises and posts at most max_retries requests, whatever
\* the responses are; a successful response is the last request made and its
\* text is what is returned; when max_retries attempts have all failed the
\* call returns None.
GatewayNeverRaisesAndIsBounded ==
    /\ gpc \in {"idle", "loop", "returned"}
    /\ Len(posts) <= max_retries
    /\ \A k \in 1..Len(posts) :
        posts[k].kind = "success" =>
            /\ k = Len(posts)
            /\ gpc = "returned"
            /\ llm_result = ReturnedText(posts[k].content)
    /\ (/\ gpc = "returned"
        /\ \A k \in 1..Len(posts) : posts[k].kind \in FailureKinds) =>
            /\ Len(posts) = max_retries
            /\ llm_result = None

\* Three attempts have failed in three different ways and the call has
\* returned None.
GatewayGaveUpAfterThree ==
    /\ gpc = "returned"
    /\ max_retries = default_max_retries
    /\ Len(posts) = 3
    /\ {posts[k].kind : k \in 1..3} = {"rate_limit", "transport", "malformed"}
    /\ llm_result = None

\* C16: the wait after the k-th failed attempt is retry_delay * k, whatever
\* kind of failure it was, and the waits of one call are strictly increasing.
BackoffIsLinear ==
    /\ Len(waits) <= Len(posts)
    /\ \A k \in 1..Len(waits) :
        /\ posts[k].kind \in FailureKinds
        /\ waits[k] = retry_delay * k
    /\ \A k \in 1..(Len(waits) - 1) : waits[k] < waits[k + 1]

\* A call with the default arguments has slept 2, 4 and 6 seconds after a
\* failed status, an exception and a rate limit.
ThreeWaitsOfDefaultCall ==
    /\ max_retries = default_max_retries
    /\ retry_delay = default_retry_delay
    /\ Len(posts) = 3
    /\ posts[1].kind = "error_status"
    /\ posts[2].kind = "transport"
    /\ posts[3].kind = "rate_limit"
    /\ waits = <<2, 4, 6>>

\* ======================================================================
\* save_knowledge_graph, one step per file written
\* ======================================================================

\* Longest fragment log a save starts from.
MaxLogged == 2

\* The fragments build_knowledge_graph merges without raising.
MergeableFragments == {f \in CandidateFragments : MergeFragment(EmptyMap, f).ok}

RECURSIVE FragmentLogs(_)
FragmentLogs(n) ==
    IF n = 0 THEN {<<>>}
    ELSE LET shorter == FragmentLogs(n - 1) IN
         shorter \cup {Append(ad, f) : ad \in {l \in shorter : Len(l) = n - 1},
                                       f \in MergeableFragments}

\* The three outputs, in the order they are written.
Outputs == <<"raw_data.json", "graph_data.json", "failed_queries.json">>

\* What json.dump is given for each output.
OutputContent(name, ad, fq) ==
    CASE name = "raw_data.json" -> [kind |-> "fragments", data |-> ad]
      [] name = "graph_data.json" -> [kind |-> "graphs", data |-> GraphData(ad)]
      [] name = "failed_queries.json" -> [kind |-> "units", data |-> fq]

\* Line 292: os.makedirs(output_dir, exist_ok=True) succeeds, or raises out
\* of save_knowledge_graph.
SaveKnowledgeGraph ==
    /\ spc = "idle"
    /\ pc = "idle"
    /\ \E made \in BOOLEAN : spc' = IF made THEN "raw" ELSE "raised"
    /\ UNCHANGED <<disk, save_log>>
    /\ UNCHANGED <<bvars, pvars, gvars, vvars, evars,
                 fvars, lvars, mvars>>

\* What a file holds when json.dump failed after open(path, 'w') created or
\* truncated it: the part of the text written before the failure, which is
\* no JSON text.
Truncated == [kind |-> "truncated"]

\* The outcomes of one "with open(path, 'w') ... json.dump(...)"
WriteOutcomes == {"written", "open_failed", "write_failed"}

\* One "with open(path, 'w') ... json.dump(...)": the file is written and the
\* next statement is reached, or open raises and the file is as before, or
\* the write raises and the file is left truncated; either exception leaves
\* save_knowledge_graph (nothing in it catches an exception of a write).
WriteOutput(k, next) ==
    /\ \E outcome \in WriteOutcomes :
        /\ save_log' = Append(save_log, [output |-> Outputs[k],
                                         written |-> outcome = "written"])
        /\ spc' = IF outcome = "written" THEN next ELSE "raised"
        /\ disk' = CASE outcome = "written" ->
                            (Outputs[k] :> OutputContent(Outputs[k], all_data,
                                                         failed_queries)) @@ disk
                      [] outcome = "write_failed" -> (Outputs[k] :> Truncated) @@ disk
                      [] outcome = "open_failed" -> disk
    /\ UNCHANGED <<bvars, pvars, gvars, vvars, evars,
                 fvars, lvars, mvars>>

\* Lines 294-296.
WriteRawData ==
    /\ spc = "raw"
    /\ WriteOutput(1, "graph")

\* lines 312-318 over the entities from the i-th on: the name is read when
\* there is a node to compare it with, type and context_role only when the
\* entity is to become a node; ok is FALSE when a key that is read is
\* missing (KeyError)
RECURSIVE SaveNodesChecked(_, _, _)
SaveNodesChecked(nodes, ents, i) ==
    IF i > Len(ents) THEN [nodes |-> nodes, ok |-> TRUE]
    ELSE LET e == ents[i] IN
         IF nodes # <<>> /\ ~Has(e, "name") THEN [nodes |-> nodes, ok |-> FALSE]
         ELSE IF nodes # <<>> /\ \E j \in 1..Len(nodes) : nodes[j]["id"] = e["name"]
         THEN SaveNodesChecked(nodes, ents, i + 1)
         ELSE IF ~EntityComplete(e) THEN [nodes |-> nodes, ok |-> FALSE]
         ELSE SaveNodesChecked(SaveNode(nodes, e), ents, i + 1)

\* lines 300-345 over all_data from the i-th entry on, with graph_data as
\* built so far: FALSE when the loop raises KeyError or TypeError. An entry
\* without query_analysis is skipped (line 301).
RECURSIVE SaveLoopCompletes(_, _, _)
SaveLoopCompletes(gd, ad, i) ==
    IF i > Len(ad) THEN TRUE
    ELSE LET data == ad[i] IN
         IF ~Has(data, "query_analysis") THEN SaveLoopCompletes(gd, ad, i + 1)
         ELSE IF \/ ~IsDict(data["query_analysis"])
                 \/ ~Has(data["query_analysis"], "core_entity")
                 \/ ~Has(data, "entities")
         THEN FALSE
         ELSE LET core == data["query_analysis"]["core_entity"]
                  g0 == IF core \in DOMAIN gd THEN gd[core] ELSE EmptySaved
              IN  /\ SaveNodesChecked(g0.nodes, data["entities"], 1).ok
                  /\ Has(data, "relations")
                  /\ \A j \in 1..Len(data["relations"]) :
                        RelationComplete(data["relations"][j])
                  /\ SaveLoopCompletes(SaveFragment(gd, data), ad, i + 1)

\* Lines 298-349: graph_data is derived from all_data, which raises KeyError
\* or TypeError when it reads a key a logged fragment lacks, before
\* graph_data.json is opened; then the file is written.
WriteGraphData ==
    /\ spc = "graph"
    /\ IF ~SaveLoopCompletes(EmptyMap, all_data, 1)
       THEN /\ spc' = "raised"
            /\ UNCHANGED <<disk, save_log>>
            /\ UNCHANGED <<bvars, pvars, gvars, vvars, evars, fvars, lvars, mvars>>
       ELSE WriteOutput(2, "failed")

\* Lines 351-353; the read-back of lines 360-372 changes nothing and
\* catches its own exceptions.
WriteFailedQueries ==
    /\ spc = "failed"
    /\ WriteOutput(3, "done")

\* The logs a builder may hold: fragments that were merged, and possibly, as
\* the last one, a fragment whose merge raised (line 258 logs it first).
BuilderLogs ==
    FragmentLogs(MaxLogged)
        \cup {Append(ad, f) : ad \in FragmentLogs(MaxLogged - 1),
                              f \in CandidateFragments \ MergeableFragments}

InitSave ==
    /\ \E ad \in BuilderLogs, fq \in {<<>>, <<Unit(2)>>} :
        BuilderHolding(MergeAll(EmptyMap, <<>>, ad, 1).graphs, ad, fq)
    /\ gateway = Live /\ templates = ShippedTemplates
    /\ SaveIdle /\ LaterStagesIdle
    /\ PathsIdle /\ GatewayIdle /\ ValidatorIdle /\ EnhancerIdle

NextSave ==
    \/ SaveKnowledgeGraph
    \/ WriteRawData
    \/ WriteGraphData
    \/ WriteFailedQueries

SpecSave == InitSave /\ [][NextSave]_vars

\* ----------------------------------------------------------------------
\* Persistence properties
\* ----------------------------------------------------------------------

Attempted == {save_log[k].output : k \in 1..Len(save_log)}

\* C21: a save that got to its first write and has ended, whether or not a
\* write failed, has attempted to write each of the three outputs.
WriteFailureDoesNotBlockOthers ==
    (spc \in {"done", "raised"} /\ save_log # <<>>) =>
        Attempted = {Outputs[k] : k \in 1..3}

\* ======================================================================
\* The parsing of a response: which part of the text goes to json.loads
\* ======================================================================

\* Longest response, in pieces (stretches of plain text and fenced blocks).
MaxPieces == 3

\* A text is the sequence of its tokens: the fence of three backquotes
\* (written <fence> here), the fence directly followed by the label json,
\* line breaks, and stretches of other characters (another label after a
\* fence is such a stretch).
Fence == "<fence>"

FenceJson == "<fence>json"

PlainTexts == {<<"x">>, <<"{1}">>}

BlockBodies == {<<"\n", "{2}", "\n">>, <<"{3}">>}

\* The label a block's opening fence carries: json, none, or another one
BlockLabels == {"json", "", "python"}

\* The pieces a response is made of; only its last block may lack the
\* closing fence.
Pieces ==
    [kind : {"text"}, body : PlainTexts]
        \cup [kind : {"block"}, label : BlockLabels, body : BlockBodies,
              closed : BOOLEAN]

ResponseTexts ==
    UNION {{r \in [1..n -> Pieces] :
                \A i \in 1..(n - 1) : r[i].kind = "block" => r[i].closed}
           : n \in 1..MaxPieces}

PieceTokens(piece) ==
    IF piece.kind = "text" THEN piece.body
    ELSE (CASE piece.label = "json" -> <<FenceJson>>
            [] piece.label = "" -> <<Fence>>
            [] OTHER -> <<Fence, piece.label>>)
            \o piece.body
            \o (IF piece.closed THEN <<Fence>> ELSE <<>>)

\* The text of a response
RECURSIVE Render(_, _)
Render(pieces, i) ==
    IF i > Len(pieces) THEN <<>>
    ELSE PieceTokens(pieces[i]) \o Render(pieces, i + 1)

\* The text as str.split(fence) sees it: a labeled fence is a fence followed
\* by the characters json
RECURSIVE Chars(_, _)
Chars(toks, i) ==
    IF i > Len(toks) THEN <<>>
    ELSE (IF toks[i] = FenceJson THEN <<Fence, "json">> ELSE <<toks[i]>>)
            \o Chars(toks, i + 1)

\* sep in text
Contains(toks, sep) == \E i \in 1..Len(toks) : toks[i] = sep

\* text.split(sep)[k]
SplitPiece(toks, sep, k) ==
    LET at == {i \in 1..Len(toks) : toks[i] = sep}
        nth(n) == CHOOSE i \in at : Cardinality({j \in at : j < i}) = n - 1
        from == IF k = 0 THEN 0 ELSE nth(k)
        to == IF Cardinality(at) > k THEN nth(k + 1) ELSE Len(toks) + 1
    IN  SubSeq(toks, from + 1, to - 1)

\* text.strip()
RECURSIVE StripWs(_)
StripWs(toks) ==
    IF toks = <<>> THEN <<>>
    ELSE IF Head(toks) = "\n" THEN StripWs(Tail(toks))
    ELSE IF toks[Len(toks)] = "\n" THEN StripWs(SubSeq(toks, 1, Len(toks) - 1))
    ELSE toks

\* line 162, the test for the labeled fence in response
HasLabeledFence(toks) == Contains(toks, FenceJson)

\* Lines 161-165 (and 137-141, 204-208, enhancer 189-193): json_str
ExtractJsonText(toks) ==
    IF HasLabeledFence(toks)
    THEN StripWs(SplitPiece(Chars(SplitPiece(toks, FenceJson, 1), 1), Fence, 0))
    ELSE IF Contains(Chars(toks, 1), Fence)
    THEN StripWs(SplitPiece(Chars(toks, 1), Fence, 1))
    ELSE toks

\* One site takes the text call_llm returned and picks what it will parse.
PickJsonText(site) ==
    /\ parse_site = "none"
    /\ json_str' = ExtractJsonText(Render(response_text, 1))
    /\ parse_site' = site
    /\ UNCHANGED response_text
    /\ UNCHANGED <<bvars, pvars, gvars, vvars, evars, svars, lvars, mvars>>

\* extract_relations, lines 160-167
ParseSingleResponse ==
    /\ response_text # <<>>
    /\ PickJsonText("extract_relations")

\* retry_extraction_with_guidance, lines 136-143
ParseRetryResponse ==
    /\ response_text # <<>>
    /\ PickJsonText("retry_extraction_with_guidance")

\* extract_batch_relations, lines 203-210
ParseBatchResponse ==
    /\ response_text # <<>>
    /\ PickJsonText("extract_batch_relations")

\* generate_synthetic_poison_entities, lines 188-195
ParseSyntheticResponse ==
    /\ response_text # <<>>
    /\ PickJsonText("generate_synthetic_poison_entities")

InitParse ==
    /\ response_text \in ResponseTexts
    /\ json_str = None
    /\ parse_site = "none"
    /\ InitBuilderVars /\ PathsIdle
    /\ GatewayIdle /\ ValidatorIdle /\ EnhancerIdle /\ SaveIdle
    /\ LoadIdle /\ MergerIdle

NextParse ==
    \/ ParseSingleResponse
    \/ ParseRetryResponse
    \/ ParseBatchResponse
    \/ ParseSyntheticResponse

SpecParse == InitParse /\ [][NextParse]_vars

\* ----------------------------------------------------------------------
\* Parsing properties
\* ----------------------------------------------------------------------

\* The blocks of a response with the given label
BlocksLabeled(pieces, label) ==
    {i \in 1..Len(pieces) : pieces[i].kind = "block" /\ pieces[i].label = label}

\* The text the precedence labeled fence > unlabeled fence > raw text picks
TextByPrecedence(pieces) ==
    IF BlocksLabeled(pieces, "json") # {}
    THEN pieces[Min(BlocksLabeled(pieces, "json"))].body
    ELSE IF BlocksLabeled(pieces, "") # {}
    THEN pieces[Min(BlocksLabeled(pieces, ""))].body
    ELSE Render(pieces, 1)

\* C32: at each of the four sites, what goes to json.loads is, up to the
\* white space around it, the body of the first block labeled json if the
\* response has one, else the body of its first unlabeled block if it has
\* one, else the whole text.  (Lines 164-165 take the text after the first
\* fence whatever follows it, so a block with another label is picked,
\* label included.)
ParsingFollowsFencePrecedence ==
    parse_site # "none" =>
        StripWs(json_str) = StripWs(TextByPrecedence(response_text))

\* ----------------------------------------------------------------------
\* The in-memory graphs against the persisted graph structure
\* ----------------------------------------------------------------------

\* Every fragment of the log went through lines 259-289 without raising
AllLoggedMerged ==
    \A i \in 1..Len(all_data) : MergeFragment(EmptyMap, all_data[i]).ok

\* the attributes C33 compares on an edge
EdgeView(e) ==
    [relation |-> e["relation"], context_intent |-> e["context_intent"],
     is_core_answer |-> e["is_core_answer"],
     poison_text |-> IF Has(e, "poison_text") THEN e["poison_text"] ELSE ""]

\* an in-memory graph and a persisted graph structure describe one graph
GraphsAgree(g, s) ==
    /\ DOMAIN g.nodes = {s.nodes[j]["id"] : j \in 1..Len(s.nodes)}
    /\ \A j \in 1..Len(s.nodes) :
        /\ Has(g.nodes[s.nodes[j]["id"]], "type")
        /\ g.nodes[s.nodes[j]["id"]]["type"] = s.nodes[j]["type"]
        /\ g.nodes[s.nodes[j]["id"]]["context_role"] = s.nodes[j]["context_role"]
    /\ DOMAIN g.edges = {<<s.edges[j]["source"], s.edges[j]["target"]>> : j \in 1..Len(s.edges)}
    /\ Cardinality(DOMAIN g.edges) = Len(s.edges)
    /\ \A j \in 1..Len(s.edges) :
        EdgeView(g.edges[<<s.edges[j]["source"], s.edges[j]["target"]>>]) = EdgeView(s.edges[j])

\* C33: once build_knowledge_graph has merged its fragments, the graph of
\* each core entity held in memory and the one save_knowledge_graph derives
\* from all_data have the same nodes with the same type and context_role,
\* the same edges, and the same relation, context_intent, is_core_answer and
\* poison_text on every edge.
InMemoryAndPersistedAgree ==
    (pc = "idle" /\ AllLoggedMerged) =>
        /\ DOMAIN graphs = DOMAIN GraphData(all_data)
        /\ \A c \in DOMAIN graphs : GraphsAgree(graphs[c], GraphData(all_data)[c])

\* C34: an edge of a graph, in memory or persisted, carries poison_text only
\* if its is_core_answer is true.
PoisonOnlyOnCoreAnswerEdges ==
    (pc = "idle" /\ AllLoggedMerged) =>
        /\ \A c \in DOMAIN graphs :
            \A k \in DOMAIN graphs[c].edges :
                Has(graphs[c].edges[k], "poison_text") =>
                    graphs[c].edges[k]["is_core_answer"] = TRUE
        /\ LET saved == GraphData(all_data) IN
           \A c \in DOMAIN saved :
            \A j \in 1..Len(saved[c].edges) :
                Has(saved[c].edges[j], "poison_text") =>
                    saved[c].edges[j]["is_core_answer"] = TRUE

\* C36: in the persisted graph of every core entity, the source and the
\* target of every edge are ids of its nodes list, and so is the core
\* entity itself.
PersistedEndpointsAreNodes ==
    (pc = "idle" /\ AllLoggedMerged) =>
        LET saved == GraphData(all_data) IN
        \A c \in DOMAIN saved :
            LET ids == {saved[c].nodes[j]["id"] : j \in 1..Len(saved[c].nodes)} IN
            /\ c \in ids
            /\ \A j \in 1..Len(saved[c].edges) :
                /\ saved[c].edges[j]["source"] \in ids
                /\ saved[c].edges[j]["target"] \in ids

\* ----------------------------------------------------------------------
\* The order of what extract_batch_relations returns
\* ----------------------------------------------------------------------

\* The place in query_batch of the unit with this query, 0 when it has none
UnitIndex(q) ==
    LET at == {k \in 1..Len(batch) : batch[k].query = q}
    IN  IF at = {} THEN 0 ELSE Min(at)

\* C37: while extract_batch_relations runs and when it has returned, the
\* fragments of results stand in the order of their units in query_batch,
\* whether taken from the batch response or from extract_relations, and so
\* do the units the call has added to failed_queries.
BatchOrderPreserved ==
    pc \in {"reconcile", "single_call", "retry_call", "single_returned", "merge"} =>
        /\ \A i \in 1..Len(results) :
            /\ Has(results[i], "original_query")
            /\ UnitIndex(results[i]["original_query"]) > 0
            /\ \A j \in (i + 1)..Len(results) :
                UnitIndex(results[i]["original_query"])
                    < UnitIndex(results[j]["original_query"])
        /\ \A i \in (failed0 + 1)..Len(failed_queries) :
            /\ UnitIndex(failed_queries[i].query) > 0
            /\ \A j \in (i + 1)..Len(failed_queries) :
                UnitIndex(failed_queries[i].query) < UnitIndex(failed_queries[j].query)

\* C37 witness: a batch of two units, answered in the opposite order, has
\* returned two fragments, the first accepted from the batch response and
\* the second from extract_relations.
BatchAndFallbackFragmentsReturned ==
    /\ pc = "merge"
    /\ Len(batch) = 2
    /\ attempts = <<0, 1>>
    /\ Len(results) = 2
    /\ results[1]["original_query"] = batch[1].query
    /\ results[2]["original_query"] = batch[2].query
    /\ Len(batch_data.items) = 2
    /\ batch_data.items[1]["original_query"] = batch[2].query

\* ======================================================================
\* load_knowledge_graph
\* ======================================================================

\* A fragment as raw_data.json holds it
StoredFragment == Attach(ShapeChain("a1"), "q1", "a1")

\* What raw_data.json may hold: a text json.load rejects, or a list of
\* fragments
RawDataFiles ==
    {RespGarbage, [kind |-> "fragments", data |-> <<>>],
     [kind |-> "fragments", data |-> <<StoredFragment>>]}

\* What failed_queries.json may hold
FailedQueriesFiles == {RespGarbage, [kind |-> "units", data |-> <<Unit(2)>>]}

\* An entry of graph_data.json: a core entity and its nodes and edges
GraphEntry(core, sub) == [core |-> core, sub |-> sub]

\* What graph_data.json may hold: a text json.load rejects, or the entries
\* of a JSON object in their order: the graph of StoredFragment alone, or
\* that graph followed by one with a node that has no "id"
GraphDataFiles ==
    {RespGarbage,
     [kind |-> "graphs",
      items |-> <<GraphEntry("X", GraphData(<<StoredFragment>>)["X"])>>],
     [kind |-> "graphs",
      items |-> <<GraphEntry("X", GraphData(<<StoredFragment>>)["X"]),
                  GraphEntry("Y", [nodes |-> <<[type |-> "t1", context_role |-> "c1"]>>,
                                   edges |-> <<>>])>>]}

\* The contents input_dir may have: each of the three files is missing or
\* holds one of the above
InputDirs ==
    {d \in UNION {[names -> RawDataFiles \cup FailedQueriesFiles \cup GraphDataFiles]
                    : names \in SUBSET {Outputs[k] : k \in 1..3}} :
        /\ Has(d, "raw_data.json") => d["raw_data.json"] \in RawDataFiles
        /\ Has(d, "failed_queries.json") => d["failed_queries.json"] \in FailedQueriesFiles
        /\ Has(d, "graph_data.json") => d["graph_data.json"] \in GraphDataFiles}

\* lines 421 and 425-426: the keys the loop pops are there
SubWellFormed(sub) ==
    /\ \A j \in 1..Len(sub.nodes) : Has(sub.nodes[j], "id")
    /\ \A j \in 1..Len(sub.edges) :
        Has(sub.edges[j], "source") /\ Has(sub.edges[j], "target")

\* lines 417-429: the loop over graph_data.items(), from self.graphs = gs;
\* ok is FALSE when a pop raised KeyError, and the graph being built is then
\* not stored
RECURSIVE LoadGraphs(_, _, _)
LoadGraphs(gs, items, i) ==
    IF i > Len(items) THEN [graphs |-> gs, ok |-> TRUE]
    ELSE IF ~SubWellFormed(items[i].sub) THEN [graphs |-> gs, ok |-> FALSE]
    ELSE LoadGraphs((items[i].core :> LoadGraph(items[i].sub)) @@ gs, items, i + 1)

\* load_knowledge_graph is called, lines 396-405: the three files are
\* there, or it returns False
LoadKnowledgeGraph ==
    /\ lpc = "idle"
    /\ pc = "idle"
    /\ load_before' = [graphs |-> graphs, all_data |-> all_data,
                       failed_queries |-> failed_queries]
    /\ IF \A k \in 1..3 : Has(disk, Outputs[k])
       THEN lpc' = "raw" /\ load_result' = "none"
       ELSE lpc' = "done" /\ load_result' = "false"
    /\ UNCHANGED <<bvars, pvars, gvars, vvars, evars, svars, fvars, mvars>>

\* lines 407-408: raw_data.json is read into self.all_data, or open or
\* json.load raises and line 435 returns False
LoadRawData ==
    /\ lpc = "raw"
    /\ \E readable \in BOOLEAN :
        IF readable /\ disk["raw_data.json"].kind = "fragments"
        THEN /\ all_data' = disk["raw_data.json"].data
             /\ lpc' = "failed"
             /\ UNCHANGED load_result
        ELSE /\ lpc' = "done"
             /\ load_result' = "false"
             /\ UNCHANGED all_data
    /\ UNCHANGED <<graphs, failed_queries, pc, queries, batch_size, batch,
                   batch_data, idx, results, single_result, attempts, calls,
                   failed0, handed, gateway, templates, primary>>
    /\ UNCHANGED load_before
    /\ UNCHANGED <<pvars, gvars, vvars, evars, svars, fvars, mvars>>

\* lines 410-411: failed_queries.json is read into self.failed_queries, or
\* the exception makes line 435 return False
LoadFailedQueries ==
    /\ lpc = "failed"
    /\ \E readable \in BOOLEAN :
        IF readable /\ disk["failed_queries.json"].kind = "units"
        THEN /\ failed_queries' = disk["failed_queries.json"].data
             /\ lpc' = "graph"
             /\ UNCHANGED load_result
        ELSE /\ lpc' = "done"
             /\ load_result' = "false"
             /\ UNCHANGED failed_queries
    /\ UNCHANGED <<graphs, all_data, pc, queries, batch_size, batch,
                   batch_data, idx, results, single_result, attempts, calls,
                   failed0, handed, gateway, templates, primary>>
    /\ UNCHANGED load_before
    /\ UNCHANGED <<pvars, gvars, vvars, evars, svars, fvars, mvars>>

\* lines 413-435: graph_data.json is read, self.graphs is emptied and
\* refilled graph by graph, and True is returned; an exception on the way
\* makes line 435 return False
LoadGraphData ==
    /\ lpc = "graph"
    /\ \E readable \in BOOLEAN :
        IF readable /\ disk["graph_data.json"].kind = "graphs"
        THEN LET l == LoadGraphs(EmptyMap, disk["graph_data.json"].items, 1) IN
             /\ graphs' = l.graphs
             /\ load_result' = IF l.ok THEN "true" ELSE "false"
        ELSE /\ load_result' = "false"
             /\ UNCHANGED graphs
    /\ lpc' = "done"
    /\ UNCHANGED <<all_data, failed_queries, pc, queries, batch_size, batch,
                   batch_data, idx, results, single_result, attempts, calls,
                   failed0, handed, gateway, templates, primary>>
    /\ UNCHANGED load_before
    /\ UNCHANGED <<pvars, gvars, vvars, evars, svars, fvars, mvars>>

InitLoad ==
    /\ \E ad \in FragmentLogs(1), fq \in {<<>>, <<Unit(1)>>} :
        BuilderHolding(MergeAll(EmptyMap, <<>>, ad, 1).graphs, ad, fq)
    /\ gateway = Live /\ templates = ShippedTemplates
    /\ disk \in InputDirs
    /\ save_log = <<>>
    /\ spc = "idle"
    /\ LaterStagesIdle
    /\ PathsIdle /\ GatewayIdle /\ ValidatorIdle /\ EnhancerIdle

NextLoad ==
    \/ LoadKnowledgeGraph
    \/ LoadRawData
    \/ LoadFailedQueries
    \/ LoadGraphData

SpecLoad == InitLoad /\ [][NextLoad]_vars

\* C35: when load_knowledge_graph has returned False, graphs, all_data and
\* failed_queries are what they were when it was called.
LoadIsAllOrNothing ==
    (lpc = "done" /\ load_result = "false") =>
        /\ graphs = load_before.graphs
        /\ all_data = load_before.all_data
        /\ failed_queries = load_before.failed_queries

\* ----------------------------------------------------------------------
\* The pairs process_entity_batch composes
\* ----------------------------------------------------------------------

\* a pair whose first element is an original poisoned edge, that is not
\* made of two synthetic entities, nor of one record twice
PairWellFormed(pair) ==
    /\ pair[1]["is_synthetic"] = FALSE
    /\ \E i \in 1..Len(original_poison_entities) :
        original_poison_entities[i] = pair[1]
    /\ ~(pair[1]["is_synthetic"] = TRUE /\ pair[2]["is_synthetic"] = TRUE)
    /\ pair[1] # pair[2]

\* C38: every pair of entity_pairs, and every pair a text was composed for,
\* has an original poisoned edge (is_synthetic false) as its first element,
\* is not made of two synthetic entities and does not pair a record with
\* itself; every entity the synthesizer returned is marked is_synthetic.
PairsAreWellFormed ==
    /\ \A k \in 1..Len(entity_pairs) : PairWellFormed(entity_pairs[k])
    /\ \A k \in 1..Len(composed) : PairWellFormed(composed[k])
    /\ \A k \in 1..Len(synthetic_entities) :
        synthetic_entities[k]["is_synthetic"] = TRUE

\* C38 witness: a text was composed for a pair of an original poisoned edge
\* and an entity of the synthesizer.
SyntheticPairComposed ==
    /\ Len(composed) >= 1
    /\ composed[1][1]["is_synthetic"] = FALSE
    /\ composed[1][2]["is_synthetic"] = TRUE
    /\ Len(synthetic_entities) >= 1

\* ======================================================================
\* PoisonTextMerger.merge_poison_texts
\* ======================================================================

\* Bound: the core entities the two results speak of.
MaxThemes == 2

ThemeNames == <<"X", "Y", "Z">>

Themes == {ThemeNames[k] : k \in 1..MaxThemes}

\* A text is the sequence of its parts; the empty text is <<>>.
OriginalTexts == {<<>>, <<"o1">>, <<" ">>}

AggregatedTexts == {<<>>, <<"e1">>}

\* The entries of the generator's result: with a poison_text, or without
\* the key
GeneratorEntries ==
    {[theme |-> "t"]} \cup {[theme |-> "t", poison_text |-> t] : t \in OriginalTexts}

\* The entries of the enhancer's result: with an aggregated_text, or
\* without the key
EnhancerEntries ==
    {[core_entity |-> "t"]}
        \cup {[core_entity |-> "t", aggregated_text |-> t] : t \in AggregatedTexts}

\* The dicts over some of the themes with entries from a set
DictsOver(entries) == UNION {[ks -> entries] : ks \in SUBSET Themes}

\* dict.get(key, "")
GetText(d, key) == IF Has(d, key) THEN d[key] ELSE <<>>

\* lines 44-50: original_text and enhanced_text of an entity
OriginalText(pt, entity) ==
    IF entity \in DOMAIN pt THEN GetText(pt[entity], "poison_text") ELSE <<>>

EnhancedText(et, entity) ==
    IF entity \in DOMAIN et THEN GetText(et[entity], "aggregated_text") ELSE <<>>

JoinTextsReversed(o, e) == e \o <<"\n\n">> \o o

\* line 54: f"{original_text}\n\n{enhanced_text}"
JoinTexts(o, e) == o \o <<"\n\n">> \o e

\* lines 52-58: final_text
FinalText(o, e) ==
    IF o # <<>> /\ e # <<>> THEN JoinTexts(o, e)
    ELSE IF o # <<>> THEN o
    ELSE IF e # <<>> THEN e
    ELSE <<>>

\* The orders in which "for entity in all_entities" may walk the set
Orders(S) ==
    {f \in [1..Cardinality(S) -> S] : \A i, j \in DOMAIN f : i # j => f[i] # f[j]}

\* lines 40-73 over the entities in the given order:
\* merged_json and the blocks of merged_txt
RECURSIVE MergeFrom(_, _, _, _, _)
MergeFrom(mj, mt, pt, et, order) ==
    IF order = <<>> THEN [json |-> mj, txt |-> mt]
    ELSE LET entity == Head(order)
             final == FinalText(OriginalText(pt, entity), EnhancedText(et, entity))
         IN  IF final # <<>>
             THEN MergeFrom((entity :> [theme |-> entity, final_poison_text |-> final]) @@ mj,
                            Append(mt, [theme |-> entity, text |-> final]),
                            pt, et, Tail(order))
             ELSE MergeFrom(mj, mt, pt, et, Tail(order))

\* merge_poison_texts, lines 33-75
MergePoisonTexts ==
    /\ mpc = "idle"
    /\ \E order \in Orders(DOMAIN poison_texts \cup DOMAIN enhanced_texts) :
        LET m == MergeFrom(EmptyMap, <<>>, poison_texts, enhanced_texts, order) IN
        /\ merged_json' = m.json
        /\ merged_txt' = m.txt
    /\ mpc' = "merged"
    /\ UNCHANGED <<poison_texts, enhanced_texts>>
    /\ UNCHANGED <<bvars, pvars, gvars, vvars, evars, svars, fvars, lvars>>

InitMerger ==
    /\ poison_texts \in DictsOver(GeneratorEntries)
    /\ enhanced_texts \in DictsOver(EnhancerEntries)
    /\ merged_json = EmptyMap
    /\ merged_txt = <<>>
    /\ mpc = "idle"
    /\ InitBuilderVars /\ PathsIdle
    /\ GatewayIdle /\ ValidatorIdle /\ EnhancerIdle /\ SaveIdle
    /\ ParseIdle /\ LoadIdle

NextMerger == MergePoisonTexts

SpecMerger == InitMerger /\ [][NextMerger]_vars

\* ----------------------------------------------------------------------
\* Merger properties
\* ----------------------------------------------------------------------

\* the entity has a non-empty poison_text in the generator's result
HasOriginal(entity) ==
    /\ entity \in DOMAIN poison_texts
    /\ Has(poison_texts[entity], "poison_text")
    /\ poison_texts[entity]["poison_text"] # <<>>

\* the entity has a non-empty aggregated_text in the enhancer's result
HasEnhanced(entity) ==
    /\ entity \in DOMAIN enhanced_texts
    /\ Has(enhanced_texts[entity], "aggregated_text")
    /\ enhanced_texts[entity]["aggregated_text"] # <<>>

\* C39: a core entity is in the output of merge_poison_texts exactly when it
\* has a non-empty poison_text in the generator's result or a non-empty
\* aggregated_text in the enhancer's; with both, its final text is the
\* original text followed by the enhanced one, and with one of them it is
\* that one unchanged.
MergerOutputIsUnionOfTexts ==
    mpc = "merged" =>
        /\ DOMAIN merged_json = {t \in Themes : HasOriginal(t) \/ HasEnhanced(t)}
        /\ {merged_txt[k].theme : k \in 1..Len(merged_txt)} = DOMAIN merged_json
        /\ \A t \in DOMAIN merged_json :
            LET final == merged_json[t]["final_poison_text"] IN
            /\ merged_json[t]["theme"] = t
            /\ (HasOriginal(t) /\ HasEnhanced(t)) =>
                LET o == poison_texts[t]["poison_text"]
                    e == enhanced_texts[t]["aggregated_text"]
                IN  /\ Len(final) = Len(o) + 1 + Len(e)
                    /\ SubSeq(final, 1, Len(o)) = o
                    /\ SubSeq(final, Len(o) + 2, Len(final)) = e
            /\ (HasOriginal(t) /\ ~HasEnhanced(t)) =>
                final = poison_texts[t]["poison_text"]
            /\ (~HasOriginal(t) /\ HasEnhanced(t)) =>
                final = enhanced_texts[t]["aggregated_text"]

\* C39 witness: one entity was merged from both texts, another from the
\* enhanced text alone.
BothAndEnhancedOnlyMerged ==
    /\ mpc = "merged"
    /\ HasOriginal("X") /\ HasEnhanced("X")
    /\ ~HasOriginal("Y") /\ HasEnhanced("Y")
    /\ merged_json["X"]["final_poison_text"] = <<"o1", "\n\n", "e1">>
    /\ merged_json["Y"]["final_poison_text"] = <<"e1">>

====
